---- MODULE Spec2Model ----
(***************************************************************************)
(* Model of the e-mail analysis engine (email_analytics/_analyzer.py).     *)
(*                                                                         *)
(* A Python str is a sequence of one-character strings.  A datetime is an  *)
(* integer number of seconds; a timedelta is a difference of two of them.  *)
(* priority_score and spam_probability are the exact floats, written as    *)
(* two words of a fixed-point number; a confidence is an integer number of *)
(* hundredths (0.27 is 27); ratios and means are kept as fractions.        *)
(***************************************************************************)
EXTENDS Integers, Sequences, FiniteSets, TLC

VARIABLES
    HIGH_PRIORITY_KEYWORDS,    \* class-level table (a dict, in insertion order)
    MEDIUM_PRIORITY_KEYWORDS,  \* class-level table (a dict, in insertion order)
    POSITIVE_WORDS,            \* class-level table (a set)
    NEGATIVE_WORDS,            \* class-level table (a set)
    CATEGORY_PATTERNS,         \* class-level table (a dict, in insertion order)
    SPAM_INDICATORS,           \* class-level table (a list)
    messages,                  \* the batch the caller holds
    analyzed_messages,         \* the caller's list of the analyses made so far
    pc,                        \* where the caller is
    call                       \* the last call made on the analyzer and its outcome

tables == <<HIGH_PRIORITY_KEYWORDS, MEDIUM_PRIORITY_KEYWORDS, POSITIVE_WORDS,
            NEGATIVE_WORDS, CATEGORY_PATTERNS, SPAM_INDICATORS>>

vars == <<HIGH_PRIORITY_KEYWORDS, MEDIUM_PRIORITY_KEYWORDS, POSITIVE_WORDS,
          NEGATIVE_WORDS, CATEGORY_PATTERNS, SPAM_INDICATORS,
          messages, analyzed_messages, pc, call>>

----------------------------------------------------------------------------
(* Python str and re primitives                                            *)

ASCII_LOWER == <<"a","b","c","d","e","f","g","h","i","j","k","l","m","n","o","p","q","r","s","t","u","v","w","x","y","z">>

ASCII_UPPER == <<"A","B","C","D","E","F","G","H","I","J","K","L","M","N","O","P","Q","R","S","T","U","V","W","X","Y","Z">>

DIGITS == <<"0","1","2","3","4","5","6","7","8","9">>

Range(s) == {s[i] : i \in DOMAIN s}

LowerSet == Range(ASCII_LOWER)

UpperSet == Range(ASCII_UPPER)

WordCharSet == LowerSet \cup UpperSet \cup Range(DIGITS) \cup {"_"}

WhiteSet == {" ", "\n", "\t"}

\* str.lower() on one character
LowerOf == [c \in UpperSet |-> ASCII_LOWER[CHOOSE i \in DOMAIN ASCII_UPPER : ASCII_UPPER[i] = c]]

LowerChar(c) == IF c \in UpperSet THEN LowerOf[c] ELSE c

\* the list [f[1], ..., f[n]], built once
List(f) == f \o <<>>

\* str.lower()
lower(s) == List([i \in DOMAIN s |-> LowerChar(s[i])])

Min(a, b) == IF a < b THEN a ELSE b

Max(a, b) == IF a > b THEN a ELSE b

\* s[i:].startswith(w), 1-based i
StartsAt(w, s, i) ==
    /\ i + Len(w) - 1 <= Len(s)
    /\ \A j \in 1..Len(w) : s[i + j - 1] = w[j]

\* the same, comparing as re.IGNORECASE does
StartsAtIgnoreCase(w, s, i) ==
    /\ i + Len(w) - 1 <= Len(s)
    /\ \A j \in 1..Len(w) : LowerChar(s[i + j - 1]) = LowerChar(w[j])

\* w in s
Contains(w, s) == \E i \in 1..(Len(s) - Len(w) + 1) : StartsAt(w, s, i)

\* any(w in s for w in ws), ws a sequence of strings
ContainsAny(ws, s) == \E k \in DOMAIN ws : Contains(ws[k], s)

\* s.find(w, i): the first position from i on where w starts, 0 if there is none
find(w, s, i) ==
    IF \E p \in i..(Len(s) - Len(w) + 1) : StartsAt(w, s, p)
    THEN CHOOSE p \in i..(Len(s) - Len(w) + 1) :
            StartsAt(w, s, p) /\ \A q \in i..(p - 1) : ~StartsAt(w, s, q)
    ELSE 0

\* s.count(w): non-overlapping occurrences, scanning from the left; CountAt
\* counts from the occurrence found at p on
RECURSIVE CountFrom(_, _, _), CountAt(_, _, _)
CountFrom(w, s, i) == CountAt(w, s, find(w, s, i))

CountAt(w, s, p) == IF p = 0 THEN 0 ELSE 1 + CountFrom(w, s, p + Len(w))

count(w, s) == CountFrom(w, s, 1)

\* \w at position i of s; positions outside the string are not word characters
IsWordAt(s, i) == i >= 1 /\ i <= Len(s) /\ s[i] \in WordCharSet

\* \b between positions i-1 and i of s
BoundaryBefore(s, i) == IsWordAt(s, i - 1) # IsWordAt(s, i)

\* [A-Z] matching capitals only, whatever the flags
InClassAZ_capitals_only(c, ignorecase) == c \in UpperSet

\* [A-Z] under re.IGNORECASE matches both cases; without it, capitals only
InClassAZ(c, ignorecase) == c \in UpperSet \/ (ignorecase /\ c \in LowerSet)

(* A regular expression of the source is one of:                           *)
(*   [kind |-> "words", alts]      \b(alt1|alt2|...)\b                      *)
(*   [kind |-> "run", min, bounded]  [A-Z]{min,} or \b[A-Z]{min,}\b         *)
(*   [kind |-> "bangs", min]       [!]{min,}                                *)
(*   [kind |-> "then", first, alts]  \bfirst\b.*\b(alt1|alt2|...)\b         *)

\* the alternative alt, followed by \b, matches at position i
AltMatches(alt, s, i, ignorecase) ==
    /\ BoundaryBefore(s, i + Len(alt))
    /\ IF ignorecase THEN StartsAtIgnoreCase(alt, s, i) ELSE StartsAt(alt, s, i)

\* length of the match of \b(alts)\b at position i (first alternative that
\* matches), 0 if there is none
WordsMatchLen(alts, s, i, ignorecase) ==
    IF BoundaryBefore(s, i) /\ \E k \in DOMAIN alts : AltMatches(alts[k], s, i, ignorecase)
    THEN Len(alts[CHOOSE k \in DOMAIN alts :
                    /\ AltMatches(alts[k], s, i, ignorecase)
                    /\ \A h \in 1..(k - 1) : ~AltMatches(alts[h], s, i, ignorecase)])
    ELSE 0

\* the first position from i on where \b(alts)\b matches, 0 if there is none
FirstMatch(alts, s, i, ignorecase) ==
    IF \E j \in i..Len(s) : WordsMatchLen(alts, s, j, ignorecase) > 0
    THEN CHOOSE j \in i..Len(s) :
            /\ WordsMatchLen(alts, s, j, ignorecase) > 0
            /\ \A h \in i..(j - 1) : WordsMatchLen(alts, s, h, ignorecase) = 0
    ELSE 0

\* re.search(pattern, s, flags) is not None
Search(p, s, ignorecase) ==
    CASE p.kind = "words" ->
            \E i \in 1..Len(s) : WordsMatchLen(p.alts, s, i, ignorecase) > 0
      [] p.kind = "run" ->
            \E i \in 1..(Len(s) - p.min + 1) :
                /\ \A j \in i..(i + p.min - 1) : InClassAZ(s[j], ignorecase)
                /\ p.bounded =>
                     /\ BoundaryBefore(s, i)
                     /\ \E e \in (i + p.min - 1)..Len(s) :
                            /\ \A j \in i..e : InClassAZ(s[j], ignorecase)
                            /\ BoundaryBefore(s, e + 1)
      [] p.kind = "bangs" ->
            \E i \in 1..(Len(s) - p.min + 1) : \A j \in i..(i + p.min - 1) : s[j] = "!"
      [] p.kind = "then" ->
            \* "." does not match a newline: both parts lie on one line
            \E i \in 1..Len(s) :
                /\ WordsMatchLen(<<p.first>>, s, i, ignorecase) > 0
                /\ \E e \in (i + Len(p.first))..Len(s) :
                    /\ WordsMatchLen(p.alts, s, e, ignorecase) > 0
                    /\ \A j \in i..(e - 1) : s[j] # "\n"

\* len(re.findall(pattern, s, flags)) for a "words" pattern: matches do not
\* overlap, the scan resumes after each match
RECURSIVE FindallFrom(_, _, _, _), FindallAt(_, _, _, _)
FindallFrom(p, s, i, ignorecase) == FindallAt(p, s, FirstMatch(p.alts, s, i, ignorecase), ignorecase)

\* the count from the match found at position j on (none if j = 0)
FindallAt(p, s, j, ignorecase) ==
    IF j = 0 THEN 0
    ELSE 1 + FindallFrom(p, s, j + WordsMatchLen(p.alts, s, j, ignorecase), ignorecase)

findall(p, s, ignorecase) == FindallFrom(p, s, 1, ignorecase)

\* len(s.split()): the number of maximal runs of non-whitespace characters
split_len(s) ==
    Cardinality({i \in DOMAIN s : s[i] \notin WhiteSet /\ (i = 1 \/ s[i - 1] \in WhiteSet)})

----------------------------------------------------------------------------
(* Python float arithmetic (IEEE 754 binary64, round-half-even).  A float  *)
(* that is not a score is [mant, exp]: the value of the binary digits mant *)
(* (most significant first, no leading zero, at most MANT_DIG of them)     *)
(* times 2^exp; 0.0 has no digits.                                         *)

\* sys.float_info.mant_dig
MANT_DIG == 53

\* s[lo] + ... + s[hi], added up by halves
RECURSIVE sum_range(_, _, _)
sum_range(s, lo, hi) ==
    IF lo > hi THEN 0
    ELSE IF lo = hi THEN s[lo]
    ELSE sum_range(s, lo, (lo + hi) \div 2) + sum_range(s, (lo + hi) \div 2 + 1, hi)

\* sum of a sequence of numbers
sum_seq(s) == sum_range(s, 1, Len(s))

\* int.bit_length() of a natural number below 2^30
bit_length(n) == CHOOSE w \in 0..30 : n < 2 ^ w /\ (w = 0 \/ n >= 2 ^ (w - 1))

\* the binary digits of a natural number in a field of w digits, most
\* significant first
bits_in(n, w) == List([j \in 1..w |-> (n \div 2 ^ (w - j)) % 2])

\* the binary digits of a natural number, most significant first
bits_of(n) == bits_in(n, bit_length(n))

\* the natural number written by a sequence of binary digits
nat_of(b) == sum_seq(List([j \in 1..Len(b) |-> b[j] * 2 ^ (Len(b) - j)]))

\* a sequence of binary digits without its leading zeros
strip(b) ==
    IF \A j \in DOMAIN b : b[j] = 0 THEN <<>>
    ELSE SubSeq(b, CHOOSE j \in DOMAIN b : b[j] = 1 /\ \A h \in 1..(j - 1) : b[h] = 0, Len(b))

\* the digits of the number written by b, plus one
increment(b) ==
    IF \A j \in DOMAIN b : b[j] = 1 THEN <<1>> \o List([j \in DOMAIN b |-> 0])
    ELSE LET z == CHOOSE j \in DOMAIN b : b[j] = 0 /\ \A h \in (j + 1)..Len(b) : b[h] = 1
         IN  List([j \in DOMAIN b |-> IF j < z THEN b[j] ELSE IF j = z THEN 1 ELSE 0])

\* an exact result (digits times 2^exp, plus a remainder below the last
\* digit when inexact is true) rounded to the nearest float, ties to even
round_float(digits, exp, inexact) ==
    IF Len(digits) <= MANT_DIG THEN [mant |-> digits, exp |-> exp]
    ELSE LET keep == SubSeq(digits, 1, MANT_DIG)
             rest == SubSeq(digits, MANT_DIG + 1, Len(digits))
             above_half == inexact \/ \E j \in 2..Len(rest) : rest[j] = 1
             up == rest[1] = 1 /\ (above_half \/ keep[MANT_DIG] = 1)
             m == IF up THEN increment(keep) ELSE keep
         IN  IF Len(m) > MANT_DIG
             THEN [mant |-> SubSeq(m, 1, MANT_DIG), exp |-> exp + Len(rest) + 1]
             ELSE [mant |-> m, exp |-> exp + Len(rest)]

\* 2^n modulo b
RECURSIVE pow2mod(_, _)
pow2mod(n, b) ==
    IF n = 0 THEN 1 % b
    ELSE IF n % 2 = 0 THEN (pow2mod(n \div 2, b) * pow2mod(n \div 2, b)) % b
    ELSE (2 * pow2mod(n - 1, b)) % b

\* the n-th binary digit of a / b after the point
fraction_bit(a, b, n) == (2 * (((a % b) * pow2mod(n - 1, b)) % b)) \div b

\* the number of digits after the point that give a / b to MANT_DIG + 1
\* significant digits
fraction_len(a, b) ==
    IF a >= b THEN MANT_DIG + 1 - bit_length(a \div b)
    ELSE MANT_DIG + 1 + CHOOSE z \in 0..30 : a * 2 ^ z < b /\ a * 2 ^ (z + 1) >= b

\* a / b to n digits after the point, rounded
divide(a, b, n) ==
    round_float(strip(bits_of(a \div b) \o List([j \in 1..n |-> fraction_bit(a, b, j)])),
                0 - n, ((a % b) * pow2mod(n, b)) % b # 0)

\* a / b for two ints, a >= 0 and 0 < b < 2^15
float_div(a, b) ==
    IF a = 0 THEN [mant |-> <<>>, exp |-> 0] ELSE divide(a, b, fraction_len(a, b))

\* the digits of a limb: 18 binary digits
LIMB == 18

\* limb i (0 for the least significant) of the number written by b
limb(b, i) ==
    IF Len(b) <= LIMB * i THEN 0
    ELSE nat_of(SubSeq(b, Max(1, Len(b) - LIMB * (i + 1) + 1), Len(b) - LIMB * i))

\* the digits of the number written by b (at most 3 limbs) times k < 2^12
times(b, k) ==
    LET p0 == limb(b, 0) * k
        p1 == limb(b, 1) * k + p0 \div 2 ^ LIMB
        p2 == limb(b, 2) * k + p1 \div 2 ^ LIMB
    IN  strip(bits_of(p2) \o bits_in(p1 % 2 ^ LIMB, LIMB) \o bits_in(p0 % 2 ^ LIMB, LIMB))

\* x * k for a float x >= 0 and a natural number k < 2^12
float_mul(x, k) == round_float(times(x.mant, k), x.exp, FALSE)

\* int(x) for a float x >= 0 below 2^30
float_to_int(x) ==
    IF x.exp >= 0 THEN nat_of(x.mant) * 2 ^ x.exp
    ELSE IF Len(x.mant) + x.exp <= 0 THEN 0
    ELSE nat_of(SubSeq(x.mant, 1, Len(x.mant) + x.exp))


\* limb i of a + b for two sequences of binary digits, with the carry of the
\* limbs below it still on top
RECURSIVE limb_sum(_, _, _)
limb_sum(a, b, i) ==
    limb(a, i) + limb(b, i) + (IF i = 0 THEN 0 ELSE limb_sum(a, b, i - 1) \div 2 ^ LIMB)

\* the digits of the sum of the numbers written by a and b
plus(a, b) ==
    strip(List([j \in 1..((Max(Len(a), Len(b)) \div LIMB + 1) * LIMB) |->
        (limb_sum(a, b, Max(Len(a), Len(b)) \div LIMB - (j - 1) \div LIMB)
            \div 2 ^ (LIMB - 1 - ((j - 1) % LIMB))) % 2]))

\* the digits of the product of the numbers written by a (at most 3 limbs)
\* and b, 12 digits of b at a time
RECURSIVE product(_, _)
product(a, b) ==
    IF Len(b) <= 12 THEN times(a, nat_of(b))
    ELSE plus(times(a, nat_of(SubSeq(b, Len(b) - 11, Len(b)))),
              product(a, SubSeq(b, 1, Len(b) - 12)) \o List([j \in 1..12 |-> 0]))

\* x * y for two floats x, y >= 0
float_times(x, y) == round_float(product(x.mant, y.mant), x.exp + y.exp, FALSE)

----------------------------------------------------------------------------
(* The floats of the scores.  Every one of them is a multiple of 2^-SCALE  *)
(* in [0, 4), so it is kept exactly, as the integer x * 2^SCALE written in *)
(* two words of WORD binary digits: [hi, lo] is (hi * 2^WORD + lo) /       *)
(* 2^SCALE.  Sums are rounded to MANT_DIG significant digits, ties to even *)

SCALE == 58

WORD == 29

\* the float [mant, exp], exp >= -SCALE, as a score
scaled(x) ==
    LET digits == x.mant \o List([j \in 1..(x.exp + SCALE) |-> 0])
        padded == List([j \in 1..(2 * WORD + 2 - Len(digits)) |-> 0]) \o digits
    IN  [hi |-> nat_of(SubSeq(padded, 1, WORD + 2)),
         lo |-> nat_of(SubSeq(padded, WORD + 3, 2 * WORD + 2))]

\* the float literal h / 100 written with two decimals (h = 0 or h >= 4)
decimal(h) == scaled(float_div(h, 100))

\* x < y
less(x, y) == x.hi < y.hi \/ (x.hi = y.hi /\ x.lo < y.lo)

\* min(x, y) of Python: the first argument unless the second is smaller
float_min(x, y) == IF less(y, x) THEN y ELSE x

\* the exact value hi * 2^WORD + lo rounded to the nearest float
round_score(hi, lo) ==
    LET r == (IF hi > 0 THEN WORD + bit_length(hi) ELSE bit_length(lo)) - MANT_DIG
        rest == lo % 2 ^ Max(r, 0)
        up == r > 0 /\ (rest > 2 ^ (r - 1) \/ (rest = 2 ^ (r - 1) /\ (lo \div 2 ^ r) % 2 = 1))
        low == lo - rest + (IF up THEN 2 ^ r ELSE 0)
    IN  [hi |-> hi + low \div 2 ^ WORD, lo |-> low % 2 ^ WORD]

\* x + y
float_add(x, y) == round_score(x.hi + y.hi + (x.lo + y.lo) \div 2 ^ WORD, (x.lo + y.lo) % 2 ^ WORD)

\* x - y, for x >= y
float_sub(x, y) ==
    IF x.lo >= y.lo THEN round_score(x.hi - y.hi, x.lo - y.lo)
    ELSE round_score(x.hi - y.hi - 1, x.lo + 2 ^ WORD - y.lo)
----------------------------------------------------------------------------
(* EmailAnalyzer: class constants and tables                               *)

HIGH_PRIORITY_THRESHOLD == 70

MEDIUM_OVERLOAD_THRESHOLD == 20

EMAIL_OVERLOAD_THRESHOLD == 50

POSITIVE_SENTIMENT_THRESHOLD == 60

NEGATIVE_SENTIMENT_THRESHOLD == 40

EXCESSIVE_LINKS_THRESHOLD == 5

MIN_MESSAGES_FOR_ANALYSIS == 2

SECONDS_PER_DAY == 86400

SECONDS_PER_HOUR == 3600

UNREAD_RATIO_THRESHOLD == 30

OLD_UNREAD_DAYS_THRESHOLD == 7

OLD_UNREAD_COUNT_THRESHOLD == 5

\* the value of HIGH_PRIORITY_KEYWORDS at class creation (weights in hundredths)
HighPriorityKeywords0 == <<
    [keyword |-> <<"u","r","g","e","n","t">>, weight |-> 90],
    [keyword |-> <<"a","s","a","p">>, weight |-> 80],
    [keyword |-> <<"e","m","e","r","g","e","n","c","y">>, weight |-> 100],
    [keyword |-> <<"c","r","i","t","i","c","a","l">>, weight |-> 90],
    [keyword |-> <<"d","e","a","d","l","i","n","e">>, weight |-> 70],
    [keyword |-> <<"i","m","p","o","r","t","a","n","t">>, weight |-> 60],
    [keyword |-> <<"a","c","t","i","o","n"," ","r","e","q","u","i","r","e","d">>, weight |-> 80],
    [keyword |-> <<"p","l","e","a","s","e"," ","r","e","s","p","o","n","d">>, weight |-> 60],
    [keyword |-> <<"t","i","m","e"," ","s","e","n","s","i","t","i","v","e">>, weight |-> 80],
    [keyword |-> <<"p","r","i","o","r","i","t","y">>, weight |-> 70] >>

\* the value of MEDIUM_PRIORITY_KEYWORDS at class creation
MediumPriorityKeywords0 == <<
    [keyword |-> <<"m","e","e","t","i","n","g">>, weight |-> 50],
    [keyword |-> <<"s","c","h","e","d","u","l","e">>, weight |-> 40],
    [keyword |-> <<"r","e","m","i","n","d","e","r">>, weight |-> 40],
    [keyword |-> <<"f","o","l","l","o","w"," ","u","p">>, weight |-> 50],
    [keyword |-> <<"p","l","e","a","s","e"," ","r","e","v","i","e","w">>, weight |-> 50],
    [keyword |-> <<"f","e","e","d","b","a","c","k">>, weight |-> 40],
    [keyword |-> <<"u","p","d","a","t","e">>, weight |-> 30],
    [keyword |-> <<"s","t","a","t","u","s">>, weight |-> 30] >>

\* the value of POSITIVE_WORDS at class creation
PositiveWords0 == {
    <<"t","h","a","n","k","s">>, <<"t","h","a","n","k"," ","y","o","u">>, <<"a","p","p","r","e","c","i","a","t","e">>, <<"e","x","c","e","l","l","e","n","t">>, <<"g","r","e","a","t">>, <<"w","o","n","d","e","r","f","u","l">>,
    <<"p","e","r","f","e","c","t">>, <<"a","w","e","s","o","m","e">>, <<"c","o","n","g","r","a","t","u","l","a","t","i","o","n","s">>, <<"s","u","c","c","e","s","s">>, <<"p","l","e","a","s","e","d">>, <<"h","a","p","p","y">> }

\* the value of NEGATIVE_WORDS at class creation
NegativeWords0 == {
    <<"p","r","o","b","l","e","m">>, <<"i","s","s","u","e">>, <<"e","r","r","o","r">>, <<"f","a","i","l","e","d">>, <<"w","r","o","n","g">>, <<"b","a","d">>, <<"t","e","r","r","i","b","l","e">>,
    <<"d","i","s","a","p","p","o","i","n","t","e","d">>, <<"f","r","u","s","t","r","a","t","e","d">>, <<"a","n","g","r","y">>, <<"c","o","n","c","e","r","n","e","d">>, <<"w","o","r","r","y">>, <<"u","r","g","e","n","t">> }

Words(alts) == [kind |-> "words", alts |-> alts]

\* the value of CATEGORY_PATTERNS at class creation
CategoryPatterns0 == <<
    [category |-> "work", patterns |-> <<
        Words(<<<<"m","e","e","t","i","n","g">>, <<"p","r","o","j","e","c","t">>, <<"d","e","a","d","l","i","n","e">>, <<"c","l","i","e","n","t">>, <<"b","u","d","g","e","t">>, <<"p","r","o","p","o","s","a","l">>, <<"c","o","n","t","r","a","c","t">>>>),
        Words(<<<<"t","e","a","m">>, <<"m","a","n","a","g","e","r">>, <<"d","e","p","a","r","t","m","e","n","t">>, <<"o","f","f","i","c","e">>, <<"b","u","s","i","n","e","s","s">>, <<"c","o","r","p","o","r","a","t","e">>>>) >>],
    [category |-> "personal", patterns |-> <<
        Words(<<<<"f","a","m","i","l","y">>, <<"f","r","i","e","n","d">>, <<"b","i","r","t","h","d","a","y">>, <<"v","a","c","a","t","i","o","n">>, <<"p","e","r","s","o","n","a","l">>, <<"h","o","m","e">>>>),
        Words(<<<<"w","e","e","k","e","n","d">>, <<"e","v","e","n","i","n","g">>, <<"d","i","n","n","e","r">>, <<"p","a","r","t","y">>, <<"c","e","l","e","b","r","a","t","i","o","n">>>>) >>],
    [category |-> "promotional", patterns |-> <<
        Words(<<<<"s","a","l","e">>, <<"d","i","s","c","o","u","n","t">>, <<"o","f","f","e","r">>, <<"d","e","a","l">>, <<"p","r","o","m","o","t","i","o","n">>, <<"m","a","r","k","e","t","i","n","g">>>>),
        Words(<<<<"b","u","y"," ","n","o","w">>, <<"l","i","m","i","t","e","d"," ","t","i","m","e">>, <<"f","r","e","e">>, <<"s","a","v","e">>, <<"p","u","r","c","h","a","s","e">>>>) >>],
    [category |-> "notification", patterns |-> <<
        Words(<<<<"n","o","t","i","f","i","c","a","t","i","o","n">>, <<"a","l","e","r","t">>, <<"r","e","m","i","n","d","e","r">>, <<"c","o","n","f","i","r","m","a","t","i","o","n">>, <<"r","e","c","e","i","p","t">>>>),
        Words(<<<<"a","c","c","o","u","n","t">>, <<"s","e","c","u","r","i","t","y">>, <<"p","a","s","s","w","o","r","d">>, <<"l","o","g","i","n">>, <<"v","e","r","i","f","i","c","a","t","i","o","n">>>>) >>] >>

\* the value of SPAM_INDICATORS at class creation
SpamIndicators0 == <<
    Words(<<<<"l","o","t","t","e","r","y">>, <<"w","i","n","n","e","r">>, <<"m","i","l","l","i","o","n"," ","d","o","l","l","a","r","s">>, <<"i","n","h","e","r","i","t","a","n","c","e">>, <<"p","r","i","n","c","e">>>>),
    Words(<<<<"c","l","i","c","k"," ","h","e","r","e">>, <<"a","c","t"," ","n","o","w">>, <<"l","i","m","i","t","e","d"," ","t","i","m","e">>, <<"u","r","g","e","n","t"," ","a","c","t","i","o","n">>>>),
    Words(<<<<"v","i","a","g","r","a">>, <<"p","h","a","r","m","a","c","y">>, <<"m","e","d","i","c","a","t","i","o","n">>, <<"p","i","l","l","s">>>>),
    [kind |-> "run", min |-> 5, bounded |-> FALSE],
    [kind |-> "bangs", min |-> 3] >>

----------------------------------------------------------------------------
(* EmailAnalyzer: single-message analysis                                  *)

ZERO == decimal(0)

ONE == decimal(100)

\* the float literals 0.04, 0.05 ... 1.00 by their hundredths, worked out
\* once (the literals below 0.04 are not multiples of 2^-SCALE; the code has
\* none of them)
DECIMALS == List([h \in 1..100 |-> decimal(Max(h, 4))])

\* weight * 0.3 and weight * 0.2 for the weights 0.3, 0.4 ... 1.0 that the
\* tables hold, by tenths of the weight, worked out once
HIGH_WEIGHT_TIMES == List([t \in 1..10 |-> IF t < 3 THEN ZERO ELSE scaled(float_times(float_div(10 * t, 100), float_div(30, 100)))])

MEDIUM_WEIGHT_TIMES == List([t \in 1..10 |-> IF t < 3 THEN ZERO ELSE scaled(float_times(float_div(10 * t, 100), float_div(20, 100)))])

\* one "for keyword, weight in table.items()" loop of _calculate_priority_score,
\* from entry i on: score = min(1.0, score + weight * factor)
RECURSIVE add_keyword_weights(_, _, _, _, _)
add_keyword_weights(table, content, score, products, i) ==
    IF i > Len(table) THEN score
    ELSE add_keyword_weights(table, content,
            IF Contains(table[i].keyword, content)
            THEN float_min(ONE, float_add(score, products[table[i].weight \div 10]))
            ELSE score,
            products, i + 1)

AUTO_WORDS == <<<<"a","u","t","o","m","a","t","e","d">>, <<"d","o"," ","n","o","t"," ","r","e","p","l","y">>, <<"n","o","r","e","p","l","y">>>>

\* a base score of 0.2
BASE_SCORE_low == decimal(20)

\* score = 0.5  # Base score
BASE_SCORE == decimal(50)

\* the score after the two keyword loops
keyword_score(content) ==
    add_keyword_weights(MEDIUM_PRIORITY_KEYWORDS, content,
        add_keyword_weights(HIGH_PRIORITY_KEYWORDS, content, BASE_SCORE, HIGH_WEIGHT_TIMES, 1),
        MEDIUM_WEIGHT_TIMES, 1)

\* a boost given to the senders that do contain noreply / donotreply
sender_boost_inverted(message) ==
    IF ContainsAny(<<<<"n","o","r","e","p","l","y">>, <<"d","o","n","o","t","r","e","p","l","y">>>>, lower(message.sender)) THEN DECIMALS[10] ELSE ZERO

\* "Boost score for personal emails from known contacts"
sender_boost(message) ==
    IF ~ContainsAny(<<<<"n","o","r","e","p","l","y">>, <<"d","o","n","o","t","r","e","p","l","y">>>>, lower(message.sender)) THEN DECIMALS[10] ELSE ZERO

\* "Boost for emails with questions"
question_boost(content) == IF Contains(<<"?">>, content) THEN DECIMALS[15] ELSE ZERO

\* a deduction of 0.05 only
automated_penalty_small(content) == IF ContainsAny(AUTO_WORDS, content) THEN DECIMALS[5] ELSE ZERO

\* "Reduce score for automated/notification emails"
automated_penalty(content) == IF ContainsAny(AUTO_WORDS, content) THEN DECIMALS[20] ELSE ZERO

\* max(0.0, min(1.0, score - penalty)): a negative difference gives 0.0
clamped(score, penalty) ==
    IF less(score, penalty) THEN ZERO
    ELSE float_min(ONE, float_sub(score, penalty))

\* the score returned without the final max(0.0, min(1.0, score))
_calculate_priority_score_unclamped(message, content) ==
    float_sub(float_add(float_add(keyword_score(content), sender_boost(message)),
                        question_boost(content)),
              automated_penalty(content))

_calculate_priority_score(message, content) ==
    clamped(float_add(float_add(keyword_score(content), sender_boost(message)),
                      question_boost(content)),
            automated_penalty(content))

\* the thresholds taken as reached when the ratio equals them
sentiment_of_inclusive(positive_count, negative_count) ==
    LET total_sentiment_words == positive_count + negative_count
        confidence == Min(100, total_sentiment_words * 10)
    IN  IF total_sentiment_words = 0 THEN <<"neutral", 70>>
        ELSE IF positive_count * 100 >= POSITIVE_SENTIMENT_THRESHOLD * total_sentiment_words
             THEN <<"positive", confidence>>
        ELSE IF positive_count * 100 <= NEGATIVE_SENTIMENT_THRESHOLD * total_sentiment_words
             THEN <<"negative", confidence>>
        ELSE <<"neutral", confidence>>

\* <<sentiment, confidence>> for the two counts; confidence is
\* min(1.0, total_sentiment_words / 10), in hundredths
sentiment_of(positive_count, negative_count) ==
    LET total_sentiment_words == positive_count + negative_count
        confidence == Min(100, total_sentiment_words * 10)
    IN  IF total_sentiment_words = 0 THEN <<"neutral", 70>>
        \* positive_ratio = positive_count / total_sentiment_words
        ELSE IF positive_count * 100 > POSITIVE_SENTIMENT_THRESHOLD * total_sentiment_words
             THEN <<"positive", confidence>>
        ELSE IF positive_count * 100 < NEGATIVE_SENTIMENT_THRESHOLD * total_sentiment_words
             THEN <<"negative", confidence>>
        ELSE <<"neutral", confidence>>

\* no confidence at all when no sentiment word is found
_analyze_sentiment_unsure(content) ==
    LET positive_count == Cardinality({w \in POSITIVE_WORDS : Contains(w, content)})
        negative_count == Cardinality({w \in NEGATIVE_WORDS : Contains(w, content)})
        total_sentiment_words == positive_count + negative_count
        confidence == Min(100, total_sentiment_words * 10)
    IN  IF total_sentiment_words = 0 THEN <<"neutral", 0>>
        \* positive_ratio = positive_count / total_sentiment_words
        ELSE IF positive_count * 100 > POSITIVE_SENTIMENT_THRESHOLD * total_sentiment_words
             THEN <<"positive", confidence>>
        ELSE IF positive_count * 100 < NEGATIVE_SENTIMENT_THRESHOLD * total_sentiment_words
             THEN <<"negative", confidence>>
        ELSE <<"neutral", confidence>>

\* <<sentiment, confidence>>
_analyze_sentiment(content) ==
    sentiment_of(Cardinality({w \in POSITIVE_WORDS : Contains(w, content)}),
                 Cardinality({w \in NEGATIVE_WORDS : Contains(w, content)}))

\* the matches of the patterns of one category, from pattern j on
RECURSIVE count_matches(_, _, _)
count_matches(patterns, content, j) ==
    IF j > Len(patterns) THEN 0
    ELSE findall(patterns[j], content, TRUE) + count_matches(patterns, content, j + 1)

\* category_scores, in the order of CATEGORY_PATTERNS
category_scores(content) ==
    List([k \in DOMAIN CATEGORY_PATTERNS |->
            count_matches(CATEGORY_PATTERNS[k].patterns, content, 1)])

\* the last key that attains the maximum
best_category_last(score) ==
    CHOOSE k \in DOMAIN score : /\ \A h \in DOMAIN score : score[h] <= score[k]
                                /\ \A h \in DOMAIN score : h > k => score[h] < score[k]

\* max(category_scores, key=category_scores.get): the first key that attains
\* the maximum
best_category(score) ==
    CHOOSE k \in DOMAIN score : /\ \A h \in DOMAIN score : score[h] <= score[k]
                                /\ \A h \in DOMAIN score : h < k => score[h] < score[k]

\* <<category, confidence>> for the given category_scores
category_of(score) ==
    IF \A k \in DOMAIN score : score[k] = 0 THEN <<"general", 50>>
    ELSE <<CATEGORY_PATTERNS[best_category(score)].category,
           Min(100, score[best_category(score)] * 20)>>

\* <<category, confidence>>
_categorize_message(content) == category_of(category_scores(content))

urgency_patterns == <<
    [name |-> "deadline_mention", pattern |-> Words(<<<<"d","e","a","d","l","i","n","e">>, <<"d","u","e"," ","d","a","t","e">>, <<"e","x","p","i","r","e","s">>, <<"u","n","t","i","l">>>>)],
    [name |-> "time_pressure", pattern |-> Words(<<<<"a","s","a","p">>, <<"u","r","g","e","n","t">>, <<"i","m","m","e","d","i","a","t","e","l","y">>, <<"q","u","i","c","k","l","y">>>>)],
    [name |-> "action_required", pattern |-> Words(<<<<"a","c","t","i","o","n"," ","r","e","q","u","i","r","e","d">>, <<"p","l","e","a","s","e"," ","r","e","s","p","o","n","d">>, <<"n","e","e","d"," ","r","e","s","p","o","n","s","e">>>>)],
    [name |-> "caps_emphasis", pattern |-> [kind |-> "run", min |-> 4, bounded |-> TRUE]],
    [name |-> "multiple_exclamations", pattern |-> [kind |-> "bangs", min |-> 2]] >>

\* the names of the patterns found, from pattern k on
RECURSIVE indicators_from(_, _)
indicators_from(content, k) ==
    IF k > Len(urgency_patterns) THEN <<>>
    ELSE (IF Search(urgency_patterns[k].pattern, content, TRUE)
          THEN <<urgency_patterns[k].name>> ELSE <<>>)
         \o indicators_from(content, k + 1)

\* the list of indicator names, in the order of urgency_patterns
_detect_urgency_indicators(content) == indicators_from(content, 1)

\* spam_score += amount, once for each of the patterns from k on that is found
RECURSIVE add_pattern_scores(_, _, _, _)
add_pattern_scores(content, spam_score, amount, k) ==
    IF k > Len(SPAM_INDICATORS) THEN spam_score
    ELSE add_pattern_scores(content,
            IF Search(SPAM_INDICATORS[k], content, TRUE) THEN float_add(spam_score, amount)
            ELSE spam_score,
            amount, k + 1)

\* the three signals that follow the patterns, added in the order of the code
add_signals(message, content, spam_score) ==
    float_add(
        float_add(
            float_add(spam_score,
                IF ContainsAny(<<<<"n","o","r","e","p","l","y">>, <<"m","a","r","k","e","t","i","n","g">>, <<"p","r","o","m","o">>>>, lower(message.sender))
                THEN DECIMALS[10] ELSE ZERO),
            IF count(<<"h","t","t","p">>, content) > EXCESSIVE_LINKS_THRESHOLD THEN DECIMALS[20] ELSE ZERO),
        IF ContainsAny(<<<<"f","r","e","e">>, <<"w","i","n">>, <<"m","o","n","e","y">>, <<"d","e","a","l">>>>, lower(message.subject))
        THEN DECIMALS[15] ELSE ZERO)

\* 0.3 added for each indicator pattern found
_calculate_spam_probability_steep(message, content) ==
    float_min(ONE, add_signals(message, content,
        add_pattern_scores(content, ZERO, DECIMALS[30], 1)))

_calculate_spam_probability(message, content) ==
    float_min(ONE, add_signals(message, content,
        add_pattern_scores(content, ZERO, DECIMALS[20], 1)))

common_words == {<<"t","h","i","s">>, <<"t","h","a","t">>, <<"w","i","t","h">>, <<"f","r","o","m">>, <<"t","h","e","y">>, <<"h","a","v","e">>, <<"w","i","l","l">>, <<"y","o","u","r">>, <<"w","o","u","l","d">>, <<"c","o","u","l","d">>}

\* re.findall(r"\b[a-zA-Z]{4,}\b", content): the matches, in order
topic_words(content) ==
    LET letter(i) == content[i] \in LowerSet \cup UpperSet
        \* the last position of the run of letters that starts at i
        run_end(i) == CHOOSE e \in i..Len(content) :
                         /\ \A j \in i..e : letter(j)
                         /\ (e = Len(content) \/ ~letter(e + 1))
        starts == {i \in DOMAIN content :
                     /\ letter(i)
                     /\ BoundaryBefore(content, i)
                     /\ run_end(i) - i + 1 >= 4
                     /\ BoundaryBefore(content, run_end(i) + 1)}
        \* the r-th start, from the left
        at(r) == CHOOSE i \in starts : Cardinality({j \in starts : j < i}) = r - 1
    IN  List([r \in 1..Cardinality(starts) |-> SubSeq(content, at(r), run_end(at(r)))])

\* equal counts in last-encountered order
most_common_last_first(items, n) ==
    LET first == {i \in DOMAIN items : \A j \in 1..(i - 1) : items[j] # items[i]}
        cnt(i) == Cardinality({j \in DOMAIN items : items[j] = items[i]})
        before(i) == {j \in first : cnt(j) > cnt(i) \/ (cnt(j) = cnt(i) /\ j > i)}
        at(r) == CHOOSE i \in first : Cardinality(before(i)) = r - 1
    IN  [r \in 1..Min(n, Cardinality(first)) |-> [item |-> items[at(r)], count |-> cnt(at(r))]]

\* Counter(...).most_common(n) of a sequence of items: the distinct items, by
\* decreasing count, equal counts in first-encountered order, cut to n
most_common(items, n) ==
    LET first == {i \in DOMAIN items : \A j \in 1..(i - 1) : items[j] # items[i]}
        cnt(i) == Cardinality({j \in DOMAIN items : items[j] = items[i]})
        before(i) == {j \in first : cnt(j) > cnt(i) \/ (cnt(j) = cnt(i) /\ j < i)}
        at(r) == CHOOSE i \in first : Cardinality(before(i)) = r - 1
    IN  [r \in 1..Min(n, Cardinality(first)) |-> [item |-> items[at(r)], count |-> cnt(at(r))]]

\* the topics with the common words left in
_extract_key_topics_unfiltered(content) ==
    LET words == topic_words(content)
        lowered == List([i \in DOMAIN words |-> lower(words[i])])
        top == most_common(lowered, 5)
    IN  [r \in DOMAIN top |-> top[r].item]

_extract_key_topics(content) ==
    LET words == topic_words(content)
        lowered == List([i \in DOMAIN words |-> lower(words[i])])
        keep(w) == w \notin common_words
        top == most_common(SelectSeq(lowered, keep), 5)
    IN  [r \in DOMAIN top |-> top[r].item]

request_patterns == <<
    [kind |-> "then", first |-> <<"p","l","e","a","s","e">>, alts |-> <<<<"l","e","t"," ","m","e"," ","k","n","o","w">>, <<"r","e","s","p","o","n","d">>, <<"r","e","p","l","y">>, <<"c","o","n","f","i","r","m">>>>],
    Words(<<<<"c","a","n"," ","y","o","u">>>>),
    Words(<<<<"w","o","u","l","d"," ","y","o","u">>>>),
    Words(<<<<"c","o","u","l","d"," ","y","o","u">>>>) >>

\* the question test made before the tests for automated mail
_should_suggest_response_question_first(message, content) ==
    IF Contains(<<"?">>, content) THEN TRUE
    ELSE IF ContainsAny(AUTO_WORDS, content) THEN FALSE
    ELSE IF ContainsAny(<<<<"n","o","r","e","p","l","y">>, <<"d","o","n","o","t","r","e","p","l","y">>, <<"n","o","-","r","e","p","l","y">>>>, lower(message.sender)) THEN FALSE
    ELSE \E k \in DOMAIN request_patterns : Search(request_patterns[k], content, TRUE)

_should_suggest_response(message, content) ==
    IF ContainsAny(AUTO_WORDS, content) THEN FALSE
    ELSE IF ContainsAny(<<<<"n","o","r","e","p","l","y">>, <<"d","o","n","o","t","r","e","p","l","y">>, <<"n","o","-","r","e","p","l","y">>>>, lower(message.sender)) THEN FALSE
    ELSE IF Contains(<<"?">>, content) THEN TRUE
    ELSE \E k \in DOMAIN request_patterns : Search(request_patterns[k], content, TRUE)

\* content = f"{message.subject} {message.body_text}".lower()
content_of(message) == lower(message.subject \o <<" ">> \o message.body_text)

\* int(max(30, (word_count / 200) * 60)), in float arithmetic; max(30, x) of an
\* int and a float x is x only when x > 30
reading_time(word_count) == Max(30, float_to_int(float_mul(float_div(word_count, 200), 60)))

\* the AnalysisReport built from the results of the analyses
AnalysisReport(priority, sentiment, category, indicators, spam, seconds, topics, respond) ==
    [priority_score |-> priority,
     sentiment |-> sentiment[1],
     sentiment_confidence |-> sentiment[2],
     category |-> category[1],
     category_confidence |-> category[2],
     urgency_indicators |-> indicators,
     spam_probability |-> spam,
     estimated_reading_time |-> seconds,
     key_topics |-> topics,
     response_suggested |-> respond]

\* the analyses of analyze_message, on the lower-cased content
analyze_content(message, content) ==
    AnalysisReport(_calculate_priority_score(message, content),
                   _analyze_sentiment(content),
                   _categorize_message(content),
                   _detect_urgency_indicators(content),
                   _calculate_spam_probability(message, content),
                   reading_time(split_len(content)),
                   _extract_key_topics(content),
                   _should_suggest_response(message, content))

\* EmailAnalyzer.analyze_message: the AnalysisReport
analyze_message(message) == analyze_content(message, content_of(message))

----------------------------------------------------------------------------
(* EmailAnalyzer: batch analyses                                           *)

\* the outcome of a call: a returned value or a raised exception
Returned(v) == [status |-> "returned", value |-> v]

Raised(e) == [status |-> "raised", error |-> e]

\* hasattr(msg, "timestamp"): a message object is a record of its attributes
has_timestamp(msg) == "timestamp" \in DOMAIN msg

\* timedelta.days of a difference given in seconds (floor, as Python normalises)
days(delta) == delta \div SECONDS_PER_DAY

\* the messages left in the order passed
sorted_by_timestamp_as_passed(msgs) == msgs

\* sorted(messages, key=lambda m: m.timestamp): stable, ascending
sorted_by_timestamp(msgs) ==
    LET n == Len(msgs)
        rank(i) == Cardinality({j \in 1..n : \/ msgs[j].timestamp < msgs[i].timestamp
                                             \/ (msgs[j].timestamp = msgs[i].timestamp /\ j < i)})
    IN  List([r \in 1..n |-> msgs[CHOOSE i \in 1..n : rank(i) = r - 1]])

\* the scores on a scale from -1.0 to 1.0
_sentiment_to_score_signed(sentiment) ==
    CASE sentiment = "positive" -> 100
      [] sentiment = "neutral" -> 0
      [] sentiment = "negative" -> 0 - 100
      [] OTHER -> 0

\* sentiment_map.get(sentiment, 0.5), in hundredths
_sentiment_to_score(sentiment) ==
    CASE sentiment = "positive" -> 100
      [] sentiment = "neutral" -> 50
      [] sentiment = "negative" -> 0
      [] OTHER -> 50

\* None, as the value of an optional timedelta
None == [present |-> FALSE, total |-> 0, n |-> 0]

\* the timedelta that is the mean of n gaps adding up to total seconds
Mean(total, n) == [present |-> TRUE, total |-> total, n |-> n]

\* the outcome of _calculate_avg_response_time
_calculate_avg_response_time(msgs) ==
    IF Len(msgs) < MIN_MESSAGES_FOR_ANALYSIS THEN Returned(None)
    ELSE IF \E i \in DOMAIN msgs : ~has_timestamp(msgs[i]) THEN Raised("AttributeError")
    ELSE LET sorted_messages == sorted_by_timestamp(msgs)
             diff(i) == sorted_messages[i].timestamp - sorted_messages[i - 1].timestamp
             kept == {i \in 2..Len(msgs) : diff(i) < SECONDS_PER_DAY}
             time_diffs == List([i \in 1..Len(msgs) |-> IF i \in kept THEN diff(i) ELSE 0])
         IN  IF kept = {} THEN Returned(None)
             ELSE Returned(Mean(sum_seq(time_diffs), Cardinality(kept)))

\* analyze_message applied to each message of the batch
analyses(msgs) == List([i \in DOMAIN msgs |-> analyze_message(msgs[i])])

\* the items of the first n entries of a most_common list
items_of(top) == [r \in DOMAIN top |-> top[r].item]

\* hours.append(msg.timestamp.hour) for the messages that have a timestamp
hours_of(stamped) == List([i \in DOMAIN stamped |-> (stamped[i].timestamp % SECONDS_PER_DAY) \div SECONDS_PER_HOUR])

\* sum of the sentiment scores of the messages of category c
score_sum(analysis, c) ==
    sum_seq(List([i \in DOMAIN analysis |->
        IF analysis[i].category = c THEN _sentiment_to_score(analysis[i].sentiment) ELSE 0]))

\* the loop of analyze_communication_patterns and its result, given the
\* analysis of each message and the outcome of _calculate_avg_response_time
communication_patterns(msgs, analysis, avg) ==
    IF avg.status = "raised" THEN avg
    ELSE Returned([
        total_messages_analyzed |-> Len(msgs),
        avg_response_time |-> avg.value,
        peak_activity_hours |-> items_of(most_common(hours_of(SelectSeq(msgs, has_timestamp)), 3)),
        most_frequent_senders |-> most_common([i \in DOMAIN msgs |-> msgs[i].sender], 5),
        category_distribution |->
            [c \in {analysis[i].category : i \in DOMAIN msgs} |->
                Cardinality({i \in DOMAIN msgs : analysis[i].category = c})],
        \* the mean of a category: [total, n], total hundredths over n messages
        sentiment_trend |->
            [c \in {analysis[i].category : i \in DOMAIN msgs} |->
                [total |-> score_sum(analysis, c),
                 n |-> Cardinality({i \in DOMAIN msgs : analysis[i].category = c})]]])

\* the analysis that refuses an empty batch
analyze_communication_patterns_rejecting_empty(msgs) ==
    IF msgs = <<>> THEN Raised("ValueError")
    ELSE communication_patterns(msgs, analyses(msgs), _calculate_avg_response_time(msgs))

\* the outcome of EmailAnalyzer.analyze_communication_patterns
analyze_communication_patterns(msgs) ==
    IF msgs = <<>>
    THEN Returned([total_messages_analyzed |-> 0,
                   avg_response_time |-> None,
                   peak_activity_hours |-> <<>>,
                   most_frequent_senders |-> <<>>,
                   category_distribution |-> [c \in {} |-> 0],
                   sentiment_trend |-> [c \in {} |-> 0]])
    ELSE communication_patterns(msgs, analyses(msgs), _calculate_avg_response_time(msgs))

\* the float num / den, kept as the fraction
Ratio(num, den) == [num |-> num, den |-> den]

\* the messages counted in total_actionable: not of the last hour, and with
\* a response suggested
actionable(msgs, now) ==
    {i \in DOMAIN msgs : /\ ~(now - msgs[i].timestamp < SECONDS_PER_HOUR)
                         /\ analyze_message(msgs[i]).response_suggested}

\* efficient_responses / total_actionable, given the actionable messages
efficiency_of(msgs, now, counted) ==
    IF counted = {} THEN Returned(Ratio(1, 1))
    ELSE Returned(Ratio(Cardinality({i \in counted : /\ msgs[i].is_read
                                                     /\ now - msgs[i].timestamp < SECONDS_PER_DAY}),
                        Cardinality(counted)))

\* the outcome of _calculate_response_efficiency at clock reading now
_calculate_response_efficiency(msgs, now) ==
    IF msgs = <<>> THEN Returned(Ratio(1, 1))
    ELSE IF \E i \in DOMAIN msgs : ~has_timestamp(msgs[i]) THEN Raised("AttributeError")
    ELSE efficiency_of(msgs, now, actionable(msgs, now))

Plain(text) == [text |-> text, n |-> 0]

\* the recommendations with the closing line always added
_generate_recommendations_cheerful(msgs, priority_unread, overload_risk, now) ==
    LET focus == IF priority_unread > 0
                 THEN <<[text |-> "Focus on {priority_unread} high-priority unread messages first",
                         n |-> priority_unread]>>
                 ELSE <<>>
        volume == IF overload_risk = "high"
                  THEN <<Plain("Consider using filters to reduce email volume"),
                         Plain("Set specific times for email processing to improve focus")>>
                  ELSE <<>>
        total_messages == Len(msgs)
        unread_messages == Cardinality({i \in DOMAIN msgs : ~msgs[i].is_read})
        backlog == IF total_messages > 0
                      /\ unread_messages * 100 > UNREAD_RATIO_THRESHOLD * total_messages
                   THEN <<Plain("Consider batch processing emails to reduce unread backlog")>>
                   ELSE <<>>
        old_unread == Cardinality({i \in DOMAIN msgs :
                          ~msgs[i].is_read /\ days(now - msgs[i].timestamp) > OLD_UNREAD_DAYS_THRESHOLD})
        clutter == IF old_unread > OLD_UNREAD_COUNT_THRESHOLD
                   THEN <<Plain("Archive or delete old unread messages to reduce clutter")>>
                   ELSE <<>>
        recommendations == focus \o volume \o backlog \o clutter
    IN  recommendations \o <<Plain("Your email management looks good!")>>

\* _generate_recommendations at clock reading now (every message has a timestamp)
_generate_recommendations(msgs, priority_unread, overload_risk, now) ==
    LET focus == IF priority_unread > 0
                 THEN <<[text |-> "Focus on {priority_unread} high-priority unread messages first",
                         n |-> priority_unread]>>
                 ELSE <<>>
        volume == IF overload_risk = "high"
                  THEN <<Plain("Consider using filters to reduce email volume"),
                         Plain("Set specific times for email processing to improve focus")>>
                  ELSE <<>>
        total_messages == Len(msgs)
        unread_messages == Cardinality({i \in DOMAIN msgs : ~msgs[i].is_read})
        backlog == IF total_messages > 0
                      /\ unread_messages * 100 > UNREAD_RATIO_THRESHOLD * total_messages
                   THEN <<Plain("Consider batch processing emails to reduce unread backlog")>>
                   ELSE <<>>
        old_unread == Cardinality({i \in DOMAIN msgs :
                          ~msgs[i].is_read /\ days(now - msgs[i].timestamp) > OLD_UNREAD_DAYS_THRESHOLD})
        clutter == IF old_unread > OLD_UNREAD_COUNT_THRESHOLD
                   THEN <<Plain("Archive or delete old unread messages to reduce clutter")>>
                   ELSE <<>>
        recommendations == focus \o volume \o backlog \o clutter
    IN  IF recommendations = <<>> THEN <<Plain("Your email management looks good!")>>
        ELSE recommendations

\* messages_per_day >= threshold
per_day_reaches(n, divisor, threshold) == n >= threshold * divisor

\* messages_per_day > threshold, for messages_per_day = n / divisor
per_day_exceeds(n, divisor, threshold) == n > threshold * divisor

\* the divisor of messages_per_day:
\* max(1, (messages[-1].timestamp - messages[0].timestamp).days or 1)
overload_days(msgs) ==
    LET d == days(msgs[Len(msgs)].timestamp - msgs[1].timestamp)
    IN  Max(1, IF d = 0 THEN 1 ELSE d)

\* "high", "medium" or "low" for n messages over the given number of days
overload_risk_of(n, divisor) ==
    IF per_day_exceeds(n, divisor, EMAIL_OVERLOAD_THRESHOLD) THEN "high"
    ELSE IF per_day_exceeds(n, divisor, MEDIUM_OVERLOAD_THRESHOLD) THEN "medium"
    ELSE "low"

\* the count that takes in the messages that score HIGH_PRIORITY_THRESHOLD itself
priority_unread_of_at_least(msgs, analysis) ==
    Cardinality({i \in DOMAIN msgs :
        ~msgs[i].is_read /\ ~less(analysis[i].priority_score, DECIMALS[HIGH_PRIORITY_THRESHOLD])})

\* the number of unread messages whose priority_score exceeds HIGH_PRIORITY_THRESHOLD
priority_unread_of(msgs, analysis) ==
    Cardinality({i \in DOMAIN msgs :
        ~msgs[i].is_read /\ less(DECIMALS[HIGH_PRIORITY_THRESHOLD], analysis[i].priority_score)})

\* the ProductivityMetrics built from the results
ProductivityMetrics(msgs, now, priority_unread, total_reading_time, efficiency, overload_risk) ==
    [unread_priority_messages |-> priority_unread,
     estimated_daily_email_time |-> total_reading_time,
     response_efficiency_score |-> efficiency,
     email_overload_risk |-> overload_risk,
     recommendations |-> _generate_recommendations(msgs, priority_unread, overload_risk, now)]

\* the loop of generate_productivity_metrics and its result, given the analysis
\* of each message and the outcome of _calculate_response_efficiency
productivity_metrics(msgs, now, analysis, response_efficiency) ==
    IF response_efficiency.status = "raised" THEN response_efficiency
    ELSE Returned(ProductivityMetrics(
            msgs, now,
            priority_unread_of(msgs, analysis),
            sum_seq(List([i \in DOMAIN msgs |-> analysis[i].estimated_reading_time])),
            response_efficiency.value,
            overload_risk_of(Len(msgs), overload_days(msgs))))

\* the metrics computed without the test for an empty batch: messages[-1] fails
generate_productivity_metrics_unguarded(msgs, now) ==
    IF msgs = <<>> THEN Raised("IndexError")
    ELSE productivity_metrics(msgs, now, analyses(msgs), _calculate_response_efficiency(msgs, now))

\* the outcome of EmailAnalyzer.generate_productivity_metrics at clock reading now
generate_productivity_metrics(msgs, now) ==
    IF msgs = <<>>
    THEN Returned([unread_priority_messages |-> 0,
                   estimated_daily_email_time |-> 0,
                   response_efficiency_score |-> Ratio(1, 1),
                   email_overload_risk |-> "low",
                   recommendations |-> <<Plain("No messages to analyze")>>])
    ELSE productivity_metrics(msgs, now, analyses(msgs), _calculate_response_efficiency(msgs, now))

----------------------------------------------------------------------------
(* The caller: messages supplied by the mail provider, and the calls made  *)
(* on the analyzer (main.py: analyse each message, then the patterns, then *)
(* the metrics, then analyse a message again)                              *)

\* longest batch built from SmallPool
MaxBatch == 2

\* size of the batches of BulkBatches
BulkSize == 21

\* the clock readings of datetime.now(tz=UTC), in seconds
Nows == {20 * SECONDS_PER_DAY, 20 * SECONDS_PER_DAY + 1800}

Message(sender, subject, body_text, is_read, timestamp) ==
    [sender |-> sender, subject |-> subject, body_text |-> body_text,
     is_read |-> is_read, timestamp |-> timestamp]

\* a message object without the timestamp attribute
Untimed(sender, subject, body_text, is_read) ==
    [sender |-> sender, subject |-> subject, body_text |-> body_text, is_read |-> is_read]

\* words joined by one space, empty words left out
Join(a, b) == IF a = <<>> THEN b ELSE IF b = <<>> THEN a ELSE a \o <<" ">> \o b

Senders == {<<"b","o","s","s","@","w","o","r","k",".","c","o","m">>, <<"N","o","R","e","p","l","y","@","s","h","o","p",".","c","o","m">>, <<"s","u","s","p","i","c","i","o","u","s","@","w","i","n",".","b","i","z">>}

Bodies == {<<>>, <<"c","a","n"," ","y","o","u"," ","r","e","p","l","y">>, <<"D","o"," ","n","o","t"," ","r","e","p","l","y">>, <<"m","i","l","l","i","o","n"," ","d","o","l","l","a","r","s"," ","c","l","i","c","k"," ","h","e","r","e">>,
           <<"Y","o","u"," ","a","r","e"," ","t","h","e"," ","l","o","t","t","e","r","y"," ","w","i","n","n","e","r","!"," ","C","l","i","c","k"," ","h","e","r","e",":"," ","m","i","l","l","i","o","n"," ","d","o","l","l","a","r","s">>,
           <<"l","o","t","t","e","r","y","!"," ","c","l","i","c","k"," ","h","e","r","e",","," ","p","i","l","l","s","!","!","!">>, <<"b","u","y"," ","n","o","w">>,
           <<"t","e","a","m"," ","m","e","e","t","i","n","g",":"," ","p","r","o","j","e","c","t",","," ","c","l","i","e","n","t",","," ","b","u","d","g","e","t",","," ","o","f","f","i","c","e">>}

Subjects ==
    {Join(h, t) : h \in {<<>>, <<"U","R","G","E","N","T",":">>, <<"i","m","p","o","r","t","a","n","t">>, <<"l","o","t","t","e","r","y"," ","w","i","n","n","e","r">>, <<"S","a","l","e">>},
                  t \in {<<>>, <<"a","c","t","i","o","n"," ","r","e","q","u","i","r","e","d">>, <<"e","m","e","r","g","e","n","c","y">>, <<"m","e","e","t","i","n","g","?">>, <<"a","u","t","o","m","a","t","e","d">>}}

\* single messages with varied text, unread, three hours old
RichPool ==
    {Message(s, subj, body, FALSE, 20 * SECONDS_PER_DAY - 3 * SECONDS_PER_HOUR) :
        s \in Senders, subj \in Subjects, body \in Bodies}

\* a keyword added to a subject as a word of its own, in front or at the end
AddToSubject(subject, keyword, where) ==
    IF where = "front" THEN keyword \o <<" ">> \o subject ELSE subject \o <<" ">> \o keyword

KeywordsToAdd == {HighPriorityKeywords0[i].keyword : i \in DOMAIN HighPriorityKeywords0}

BaseSubjects == {<<>>, <<"a","c","t","i","o","n">>, <<"d","o"," ","n","o","t">>, <<"U","R","G","E","N","T",":"," ","e","m","e","r","g","e","n","c","y">>, <<"s","t","a","t","u","s">>}

BaseBodies == {<<>>, <<"r","e","q","u","i","r","e","d">>, <<"r","e","p","l","y","?">>}

\* a message followed by the same message with a keyword added to its subject
KeywordPairs ==
    {<<Message(s, subj, body, FALSE, 20 * SECONDS_PER_DAY - 3 * SECONDS_PER_HOUR),
       Message(s, AddToSubject(subj, k, w), body, FALSE, 20 * SECONDS_PER_DAY - 3 * SECONDS_PER_HOUR)>> :
        s \in {<<"b","o","s","s","@","w","o","r","k",".","c","o","m">>, <<"N","o","R","e","p","l","y","@","s","h","o","p",".","c","o","m">>}, subj \in BaseSubjects, body \in BaseBodies,
        k \in KeywordsToAdd, w \in {"front", "end"}}

\* two messages, read and unread, half an hour, two hours and three days
\* old, and one without timestamp
SmallPool ==
    {Message(t[1], t[2], t[3], r, ts) :
        t \in {<<<<"b","o","s","s","@","w","o","r","k",".","c","o","m">>, <<"U","R","G","E","N","T",":"," ","b","u","d","g","e","t">>, <<"c","a","n"," ","y","o","u"," ","r","e","p","l","y","?">>>>,
               <<<<"f","r","i","e","n","d","@","h","o","m","e",".","n","e","t">>, <<"d","i","n","n","e","r">>, <<"t","h","a","n","k","s">>>>},
        r \in BOOLEAN,
        ts \in {20 * SECONDS_PER_DAY - 1800,
                20 * SECONDS_PER_DAY - 2 * SECONDS_PER_HOUR,
                17 * SECONDS_PER_DAY}}
    \cup {Untimed(<<"b","o","s","s","@","w","o","r","k",".","c","o","m">>, <<"U","R","G","E","N","T",":"," ","b","u","d","g","e","t">>, <<"c","a","n"," ","y","o","u"," ","r","e","p","l","y","?">>, FALSE)}

RECURSIVE SeqsUpTo(_, _)
SeqsUpTo(S, n) ==
    IF n = 0 THEN {<<>>}
    ELSE LET shorter == SeqsUpTo(S, n - 1)
         IN  shorter \cup {Append(s, x) : s \in {t \in shorter : Len(t) = n - 1}, x \in S}

SmallBatches == SeqsUpTo(SmallPool, MaxBatch)

\* BulkSize messages a minute apart, the last one three days after the first,
\* oldest first or newest first
BulkStamp(i) == 16 * SECONDS_PER_DAY + (IF i = BulkSize THEN 3 * SECONDS_PER_DAY ELSE 60 * i)

BulkMessage(i) == Message(<<"l","i","s","t","@","n","e","w","s",".","o","r","g">>, <<"d","i","g","e","s","t">>, <<"h","e","l","l","o">>, i % 2 = 0, BulkStamp(i))

BulkBatches == {[i \in 1..BulkSize |-> BulkMessage(i)],
                [i \in 1..BulkSize |-> BulkMessage(BulkSize + 1 - i)]}

\* text repeated n times, the copies joined by one space
Repeated(text, n) ==
    List([i \in 1..(n * (Len(text) + 1) - 1) |->
            IF i % (Len(text) + 1) = 0 THEN " " ELSE text[i % (Len(text) + 1)]])

\* a short body, bodies of about 410 one-letter words, and 50 sentences of nine words
LongBodies == <<<<"t","h","e"," ","r","e","p","o","r","t"," ","i","s"," ","d","u","e"," ","o","n"," ","f","r","i","d","a","y">>,
                Repeated(<<"a">>, 409), Repeated(<<"a">>, 410), Repeated(<<"a">>, 411),
                Repeated(<<"t","h","i","s"," ","i","s"," ","a"," ","n","o","t","e"," ","o","f"," ","n","i","n","e"," ","w","o","r","d","s"," ","i","n"," ","a","l","l",".">>, 50)>>

\* one batch of messages without subject, read, bodies from short to long
LongBatches ==
    {[i \in DOMAIN LongBodies |->
        Message(<<"f","r","i","e","n","d","@","h","o","m","e",".","n","e","t">>, <<>>, LongBodies[i], TRUE, 19 * SECONDS_PER_DAY + 60 * i)]}

\* messages without any text, from senders of every kind, and a question in
\* automated mail
ExtraPool ==
    {Message(s, <<>>, <<>>, FALSE, 20 * SECONDS_PER_DAY - 3 * SECONDS_PER_HOUR) :
        s \in {<<>>, <<"d","o","n","o","t","r","e","p","l","y","@","b","a","n","k",".","c","o","m">>, <<"p","r","o","m","o","@","d","e","a","l","s",".","c","o","m">>}}
    \cup {Message(s, <<"a","u","t","o","m","a","t","e","d">>, <<"i","s"," ","t","h","i","s"," ","o","k","?">>, FALSE, 20 * SECONDS_PER_DAY - 3 * SECONDS_PER_HOUR) :
        s \in {<<"b","o","s","s","@","w","o","r","k",".","c","o","m">>, <<"N","o","R","e","p","l","y","@","s","h","o","p",".","c","o","m">>}}

\* longest batch built from GapPool
GapLen == 3

\* timestamps an hour, just under a day and exactly a day apart
GapPool ==
    {Message(<<"f","r","i","e","n","d","@","h","o","m","e",".","n","e","t">>, <<"d","i","n","n","e","r">>, <<"t","h","a","n","k","s">>, TRUE, ts) :
        ts \in {19 * SECONDS_PER_DAY, 19 * SECONDS_PER_DAY + SECONDS_PER_HOUR,
                20 * SECONDS_PER_DAY - 1, 20 * SECONDS_PER_DAY}}

GapBatches == {b \in SeqsUpTo(GapPool, GapLen) : Len(b) >= 2}

\* BulkSize messages received ten days ago, the first k of them unread
OldMessage(i, k) ==
    Message(<<"l","i","s","t","@","n","e","w","s",".","o","r","g">>, <<"d","i","g","e","s","t">>, <<"h","e","l","l","o">>, i > k, 10 * SECONDS_PER_DAY + 60 * i)

OldBatches == {[i \in 1..BulkSize |-> OldMessage(i, k)] : k \in {5, 6}}

\* size of the batch of BusyBatches
BusySize == 51

\* BusySize messages of one day, all read
BusyBatches ==
    {[i \in 1..BusySize |->
        Message(<<"l","i","s","t","@","n","e","w","s",".","o","r","g">>, <<"d","i","g","e","s","t">>, <<"h","e","l","l","o">>, TRUE, 19 * SECONDS_PER_DAY + 60 * i)]}

\* six unread messages seven and a half days old, or eight and a half
StaleBatches ==
    {[i \in 1..6 |-> Message(<<"l","i","s","t","@","n","e","w","s",".","o","r","g">>, <<"d","i","g","e","s","t">>, <<"h","e","l","l","o">>, FALSE, ts + 60 * i)] :
        ts \in {12 * SECONDS_PER_DAY + 12 * SECONDS_PER_HOUR,
                11 * SECONDS_PER_DAY + 12 * SECONDS_PER_HOUR}}

\* messages, read and unread, whose medium-priority keywords add up to a
\* priority_score at the 0.7 of HIGH_PRIORITY_THRESHOLD or next to it
FinePool ==
    {Message(s, subj, body, r, 20 * SECONDS_PER_DAY - 3 * SECONDS_PER_HOUR) :
        s \in {<<"b","o","s","s","@","w","o","r","k",".","c","o","m">>, <<"N","o","R","e","p","l","y","@","s","h","o","p",".","c","o","m">>},
        subj \in {<<"f","e","e","d","b","a","c","k"," ","u","p","d","a","t","e"," ","s","t","a","t","u","s">>, <<"m","e","e","t","i","n","g">>, <<"f","o","l","l","o","w"," ","u","p"," ","p","l","e","a","s","e"," ","r","e","v","i","e","w">>},
        body \in {<<>>, <<"a","u","t","o","m","a","t","e","d">>},
        r \in BOOLEAN}

\* pairs of messages of FinePool, the first one unread
FineBatches == {<<m, n>> : m \in {f \in FinePool : ~f.is_read /\ f.body_text = <<>>}, n \in FinePool}

\* messages with words of several categories, some of them as often as
\* others; messages of seven and more distinct words, some of them repeated,
\* some of them common words; messages with positive and negative words in
\* varied proportions, up to eleven of them
WordPool ==
    {Message(<<"f","r","i","e","n","d","@","h","o","m","e",".","n","e","t">>, subj, body, TRUE, 20 * SECONDS_PER_DAY - 3 * SECONDS_PER_HOUR) :
        subj \in {<<"a","c","c","o","u","n","t"," ","a","l","e","r","t">>, <<"d","i","n","n","e","r"," ","a","l","e","r","t">>, <<"f","r","e","e"," ","d","i","n","n","e","r">>, <<"s","a","l","e"," ","a","l","e","r","t",":"," ","m","e","e","t","i","n","g"," ","a","t"," ","h","o","m","e">>},
        body \in {<<>>, <<"p","a","r","t","y">>, <<"l","o","g","i","n",","," ","p","a","s","s","w","o","r","d",","," ","r","e","c","e","i","p","t",","," ","s","e","c","u","r","i","t","y",","," ","a","l","e","r","t",","," ","a","c","c","o","u","n","t">>}}
    \cup
    {Message(<<"f","r","i","e","n","d","@","h","o","m","e",".","n","e","t">>, subj, body, TRUE, 20 * SECONDS_PER_DAY - 3 * SECONDS_PER_HOUR) :
        subj \in {<<>>, <<"D","e","l","t","a"," ","R","E","P","O","R","T">>},
        body \in {<<"t","h","i","s"," ","r","e","p","o","r","t"," ","f","r","o","m"," ","a","l","p","h","a"," ","b","e","t","a"," ","b","e","t","a"," ","g","a","m","m","a"," ","g","a","m","m","a"," ","g","a","m","m","a"," ","d","e","l","t","a"," ","e","p","s","i","l","o","n"," ","z","e","t","a"," ","z","e","t","a"," ","w","i","t","h"," ","t","h","i","s">>,
                  <<"w","i","l","l"," ","t","h","e","y"," ","h","a","v","e"," ","y","o","u","r"," ","n","o","t","e","s","?"," ","t","h","e","y"," ","w","i","l","l",","," ","w","i","t","h"," ","t","h","i","s">>}}
    \cup
    {Message(<<"f","r","i","e","n","d","@","h","o","m","e",".","n","e","t">>, <<>>, body, TRUE, 20 * SECONDS_PER_DAY - 3 * SECONDS_PER_HOUR) :
        body \in {<<"g","r","e","a","t">>, <<"t","h","a","n","k","s",","," ","b","u","t"," ","t","h","e","r","e"," ","i","s"," ","a"," ","p","r","o","b","l","e","m">>,
                  <<"t","h","a","n","k","s"," ","g","r","e","a","t"," ","p","e","r","f","e","c","t"," ","p","r","o","b","l","e","m"," ","i","s","s","u","e">>, <<"t","h","a","n","k","s"," ","g","r","e","a","t"," ","p","r","o","b","l","e","m"," ","i","s","s","u","e"," ","e","r","r","o","r">>,
                  <<"t","h","a","n","k","s"," ","g","r","e","a","t"," ","p","e","r","f","e","c","t"," ","a","w","e","s","o","m","e"," ","p","r","o","b","l","e","m">>, <<"p","r","o","b","l","e","m"," ","i","s","s","u","e"," ","e","r","r","o","r"," ","f","a","i","l","e","d"," ","t","h","a","n","k","s">>,
                  <<"t","h","a","n","k","s"," ","g","r","e","a","t"," ","p","e","r","f","e","c","t"," ","a","w","e","s","o","m","e"," ","h","a","p","p","y"," ","p","l","e","a","s","e","d"," ","s","u","c","c","e","s","s"," ","e","x","c","e","l","l","e","n","t"," ","w","o","n","d","e","r","f","u","l">>
                      \o <<" ","a","p","p","r","e","c","i","a","t","e"," ","c","o","n","g","r","a","t","u","l","a","t","i","o","n","s">>}}

\* batches of messages a minute apart, all read: of one day, with exactly
\* MEDIUM_OVERLOAD_THRESHOLD and exactly EMAIL_OVERLOAD_THRESHOLD messages;
\* and with the last message two days after the first, of twice
\* MEDIUM_OVERLOAD_THRESHOLD messages and of one more
LevelBatches ==
    {[i \in 1..n |->
        Message(<<"l","i","s","t","@","n","e","w","s",".","o","r","g">>, <<"d","i","g","e","s","t">>, <<"h","e","l","l","o">>, TRUE, 19 * SECONDS_PER_DAY + 60 * i)] :
        n \in {MEDIUM_OVERLOAD_THRESHOLD, EMAIL_OVERLOAD_THRESHOLD}}
    \cup
    {[i \in 1..n |->
        Message(<<"l","i","s","t","@","n","e","w","s",".","o","r","g">>, <<"d","i","g","e","s","t">>, <<"h","e","l","l","o">>, TRUE,
                17 * SECONDS_PER_DAY + (IF i = n THEN 2 * SECONDS_PER_DAY ELSE 60 * i))] :
        n \in {2 * MEDIUM_OVERLOAD_THRESHOLD, 2 * MEDIUM_OVERLOAD_THRESHOLD + 1}}

\* the senders and the hours of the day of the messages of PeakBatches
PeakList == <<<<<<"a","n","n","@","h","o","m","e",".","n","e","t">>, 9>>, <<<<"b","o","b","@","h","o","m","e",".","n","e","t">>, 10>>, <<<<"c","a","t","@","h","o","m","e",".","n","e","t">>, 11>>,
              <<<<"c","a","t","@","h","o","m","e",".","n","e","t">>, 11>>, <<<<"d","a","n","@","h","o","m","e",".","n","e","t">>, 12>>, <<<<"e","v","e","@","h","o","m","e",".","n","e","t">>, 12>>,
              <<<<"f","a","y","@","h","o","m","e",".","n","e","t">>, 12>>, <<<<"f","a","y","@","h","o","m","e",".","n","e","t">>, 13>>, <<<<"A","n","n","@","h","o","m","e",".","n","e","t">>, 10>>>>

\* a batch with seven senders and five hours of the day, some of them as
\* frequent as others, as listed and in the opposite order
PeakBatches ==
    {[i \in DOMAIN PeakList |->
        Message(PeakList[i][1], <<"d","i","n","n","e","r">>, <<"t","h","a","n","k","s">>, TRUE,
                19 * SECONDS_PER_DAY + PeakList[i][2] * SECONDS_PER_HOUR + 60 * i)],
     [i \in DOMAIN PeakList |->
        Message(PeakList[10 - i][1], <<"d","i","n","n","e","r">>, <<"t","h","a","n","k","s">>, TRUE,
                19 * SECONDS_PER_DAY + PeakList[10 - i][2] * SECONDS_PER_HOUR + 60 * (10 - i))]}

Batches ==
    {<<m>> : m \in RichPool \cup ExtraPool \cup FinePool \cup WordPool}
    \cup KeywordPairs \cup SmallBatches
    \cup BulkBatches \cup LongBatches \cup GapBatches \cup OldBatches \cup BusyBatches
    \cup StaleBatches \cup FineBatches \cup LevelBatches
    \cup PeakBatches

NoCall == [op |-> "none", index |-> 0, now |-> 0, outcome |-> Returned(0)]

Init ==
    /\ HIGH_PRIORITY_KEYWORDS = HighPriorityKeywords0
    /\ MEDIUM_PRIORITY_KEYWORDS = MediumPriorityKeywords0
    /\ POSITIVE_WORDS = PositiveWords0
    /\ NEGATIVE_WORDS = NegativeWords0
    /\ CATEGORY_PATTERNS = CategoryPatterns0
    /\ SPAM_INDICATORS = SpamIndicators0
    /\ messages \in Batches
    /\ analyzed_messages = <<>>
    /\ pc = "analyze"
    /\ call = NoCall

\* the analysis of a message that uses up the first keyword of the table
AnalyzeMessage_consuming ==
    /\ pc = "analyze"
    /\ Len(analyzed_messages) < Len(messages)
    /\ LET i == Len(analyzed_messages) + 1
           analysis == analyze_message(messages[i])
       IN  /\ analyzed_messages' = Append(analyzed_messages, analysis)
           /\ call' = [op |-> "analyze_message", index |-> i, now |-> 0,
                       outcome |-> Returned(analysis)]
    /\ HIGH_PRIORITY_KEYWORDS' = Tail(HIGH_PRIORITY_KEYWORDS)
    /\ UNCHANGED <<MEDIUM_PRIORITY_KEYWORDS, POSITIVE_WORDS, NEGATIVE_WORDS,
                   CATEGORY_PATTERNS, SPAM_INDICATORS, messages, pc>>

\* main.py, Demo 1: analysis = analyzer.analyze_message(message);
\* analyzed_messages.append((message, analysis))
AnalyzeMessage ==
    /\ pc = "analyze"
    /\ Len(analyzed_messages) < Len(messages)
    /\ LET i == Len(analyzed_messages) + 1
           analysis == analyze_message(messages[i])
       IN  /\ analyzed_messages' = Append(analyzed_messages, analysis)
           /\ call' = [op |-> "analyze_message", index |-> i, now |-> 0,
                       outcome |-> Returned(analysis)]
    /\ UNCHANGED <<tables, messages, pc>>

\* main.py, Demo 3: patterns = analyzer.analyze_communication_patterns(messages)
AnalyzePatterns ==
    /\ pc = "analyze"
    /\ Len(analyzed_messages) = Len(messages)
    /\ call' = [op |-> "analyze_communication_patterns", index |-> 0, now |-> 0,
                outcome |-> analyze_communication_patterns(messages)]
    /\ pc' = "patterns"
    /\ UNCHANGED <<tables, messages, analyzed_messages>>

\* the metrics computed after sorting the caller's list in place, newest first
GenerateMetrics_reordering ==
    /\ pc = "patterns"
    /\ \E now \in Nows :
        call' = [op |-> "generate_productivity_metrics", index |-> 0, now |-> now,
                 outcome |-> generate_productivity_metrics(messages, now)]
    /\ pc' = "metrics"
    /\ messages' = [i \in DOMAIN messages |-> messages[Len(messages) + 1 - i]]
    /\ UNCHANGED <<tables, analyzed_messages>>

\* main.py, Demo 4: productivity = analyzer.generate_productivity_metrics(messages)
GenerateMetrics ==
    /\ pc = "patterns"
    /\ \E now \in Nows :
        call' = [op |-> "generate_productivity_metrics", index |-> 0, now |-> now,
                 outcome |-> generate_productivity_metrics(messages, now)]
    /\ pc' = "metrics"
    /\ UNCHANGED <<tables, messages, analyzed_messages>>

\* main.py, Demo 5: analysis = analyzer.analyze_message(message), on a message
\* that was analysed before
AnalyzeAgain ==
    /\ pc = "metrics"
    /\ \E i \in DOMAIN messages :
        call' = [op |-> "analyze_message", index |-> i, now |-> 0,
                 outcome |-> Returned(analyze_message(messages[i]))]
    /\ pc' = "again"
    /\ UNCHANGED <<tables, messages, analyzed_messages>>

Next == AnalyzeMessage \/ AnalyzePatterns \/ GenerateMetrics \/ AnalyzeAgain

Spec == Init /\ [][Next]_vars

----------------------------------------------------------------------------
(* Properties                                                              *)

\* the last call was analyze_message
IsReport == call.op = "analyze_message"

\* the message and the report of the last analyze_message call
msg == messages[call.index]

report == call.outcome.value

\* the last call was the named batch analysis and it returned
Returns(op) == call.op = op /\ call.outcome.status = "returned"

\* the sender, compared as the code compares it (case-insensitively)
SenderHas(m, words) == ContainsAny(words, lower(m.sender))

HasAutoMarker(m) == ContainsAny(<<<<"a","u","t","o","m","a","t","e","d">>, <<"d","o"," ","n","o","t"," ","r","e","p","l","y">>, <<"n","o","r","e","p","l","y">>>>, content_of(m))

HasHighKeyword(m) ==
    \E i \in DOMAIN HighPriorityKeywords0 : Contains(HighPriorityKeywords0[i].keyword, content_of(m))

HasMediumKeyword(m) ==
    \E i \in DOMAIN MediumPriorityKeywords0 : Contains(MediumPriorityKeywords0[i].keyword, content_of(m))

\* the phrase occurs in the content as words of their own
HasPhrase(m, phrase) == Search(Words(<<phrase>>), content_of(m), TRUE)

\* the float literal written h / 100
Dec(h) == IF h = 0 THEN ZERO ELSE DECIMALS[h]

\* the float x is within [0.0, 1.0]
InUnitInterval(x) == ~less(x, ZERO) /\ ~less(ONE, x)

InDomain(r) ==
    /\ InUnitInterval(r.priority_score)
    /\ InUnitInterval(r.spam_probability)
    /\ r.sentiment_confidence \in 0..100
    /\ r.category_confidence \in 0..100
    /\ r.estimated_reading_time >= 30
    /\ r.sentiment \in {"positive", "negative", "neutral"}
    /\ r.category \in {"work", "personal", "promotional", "notification", "general"}

\* C1: every AnalysisReport returned by analyze_message has each field in its
\* declared domain: the four scores within [0.0, 1.0], the reading time at
\* least 30, the sentiment and the category among their enumerated values.
C1_ReportInDomain ==
    /\ \A i \in DOMAIN analyzed_messages : InDomain(analyzed_messages[i])
    /\ IsReport => InDomain(report)

\* C1 witness: a report whose priority and spam scores were both cut back to
\* 1.0 by the clamps
C1_Witness ==
    /\ IsReport
    /\ report.priority_score = ONE
    /\ report.spam_probability = ONE

\* the risk level of n messages spread over the given number of days
RiskOf(n, span_days) ==
    IF n > EMAIL_OVERLOAD_THRESHOLD * span_days THEN "high"
    ELSE IF n > MEDIUM_OVERLOAD_THRESHOLD * span_days THEN "medium"
    ELSE "low"

\* whole days between the earliest and the latest message, 0 counted as 1
SpanDays(msgs) ==
    LET earliest == CHOOSE i \in DOMAIN msgs : \A j \in DOMAIN msgs : msgs[i].timestamp <= msgs[j].timestamp
        latest == CHOOSE i \in DOMAIN msgs : \A j \in DOMAIN msgs : msgs[i].timestamp >= msgs[j].timestamp
        d == (msgs[latest].timestamp - msgs[earliest].timestamp) \div SECONDS_PER_DAY
    IN  IF d = 0 THEN 1 ELSE d

\* C2: email_overload_risk is derived from the whole days between the
\* earliest and the latest message by timestamp (0 days counted as 1), so it
\* does not depend on the order in which the batch is passed.
C2_RiskFromEarliestToLatest ==
    (Returns("generate_productivity_metrics") /\ messages # <<>>)
        => report.email_overload_risk = RiskOf(Len(messages), SpanDays(messages))

\* m2 is m with a high-priority keyword added to its subject
KeywordAdded(m, m2) ==
    /\ m2.sender = m.sender
    /\ m2.body_text = m.body_text
    /\ \E k \in KeywordsToAdd, w \in {"front", "end"} : m2.subject = AddToSubject(m.subject, k, w)

\* C3: adding a high-priority keyword to a message's subject, sender and body
\* unchanged, never decreases priority_score.
C3_KeywordNeverLowersPriority ==
    \A i, j \in DOMAIN analyzed_messages :
        KeywordAdded(messages[i], messages[j])
            => ~less(analyzed_messages[j].priority_score, analyzed_messages[i].priority_score)

\* C4: analyze_message called again on a message, after the other analyzer
\* calls, returns a report identical to the one it returned the first time.
C4_SameReportOnRepeat ==
    (IsReport /\ call.index \in DOMAIN analyzed_messages)
        => report = analyzed_messages[call.index]

\* C4 witness: a message analysed a second time, after the pattern and metric
\* analyses of its batch, whose report carries keyword-dependent scores
C4_Witness ==
    /\ pc = "again"
    /\ IsReport
    /\ less(Dec(60), report.priority_score)
    /\ report.sentiment = "negative"

\* C5: a message whose content has the phrases "lottery", "winner", "million
\* dollars" and "click here", from a sender that contains "suspicious" and
\* none of noreply / marketing / promo, gets spam_probability above 0.5.
C5_LotterySpam ==
    (/\ IsReport
     /\ HasPhrase(msg, <<"l","o","t","t","e","r","y">>)
     /\ HasPhrase(msg, <<"w","i","n","n","e","r">>)
     /\ HasPhrase(msg, <<"m","i","l","l","i","o","n"," ","d","o","l","l","a","r","s">>)
     /\ HasPhrase(msg, <<"c","l","i","c","k"," ","h","e","r","e">>)
     /\ SenderHas(msg, <<<<"s","u","s","p","i","c","i","o","u","s">>>>)
     /\ ~SenderHas(msg, <<<<"n","o","r","e","p","l","y">>, <<"m","a","r","k","e","t","i","n","g">>, <<"p","r","o","m","o">>>>))
        => less(Dec(50), report.spam_probability)

\* C5 witness: such a message with an empty subject, whose score, two word
\* patterns and the run of letters, is 0.2 + 0.2 + 0.2
C5_Witness ==
    /\ IsReport
    /\ msg.subject = <<>>
    /\ HasPhrase(msg, <<"l","o","t","t","e","r","y">>)
    /\ HasPhrase(msg, <<"w","i","n","n","e","r">>)
    /\ HasPhrase(msg, <<"m","i","l","l","i","o","n"," ","d","o","l","l","a","r","s">>)
    /\ HasPhrase(msg, <<"c","l","i","c","k"," ","h","e","r","e">>)
    /\ SenderHas(msg, <<<<"s","u","s","p","i","c","i","o","u","s">>>>)
    /\ less(Dec(50), report.spam_probability)
    /\ less(report.spam_probability, Dec(70))

\* C6: a batch analysis called with a message that lacks the timestamp fails
\* with an error; it never returns a result.
C6_MissingTimestampFails ==
    (/\ call.op \in {"analyze_communication_patterns", "generate_productivity_metrics"}
     /\ \E i \in DOMAIN messages : ~has_timestamp(messages[i]))
        => call.outcome.status = "raised"

\* C7: response_suggested is false whenever the content has an automated
\* marker or the sender contains noreply / donotreply / no-reply, even when
\* the content has a "?" or a request phrase.
C7_NoResponseToAutomated ==
    (/\ IsReport
     /\ HasAutoMarker(msg) \/ SenderHas(msg, <<<<"n","o","r","e","p","l","y">>, <<"d","o","n","o","t","r","e","p","l","y">>, <<"n","o","-","r","e","p","l","y">>>>))
        => report.response_suggested = FALSE

\* C7 witness: a question, and a request, in automated mail
C7_Witness ==
    /\ IsReport
    /\ HasAutoMarker(msg)
    /\ ~SenderHas(msg, <<<<"n","o","r","e","p","l","y">>, <<"d","o","n","o","t","r","e","p","l","y">>, <<"n","o","-","r","e","p","l","y">>>>)
    /\ Contains(<<"?">>, content_of(msg))
    /\ report.response_suggested = FALSE

\* C8: for a non-automated sender and content without automated marker, an
\* urgent action request (the action_required or time_pressure signal) gets
\* response_suggested = true.
C8_UrgentRequestSuggestsResponse ==
    (/\ IsReport
     /\ ~HasAutoMarker(msg)
     /\ ~SenderHas(msg, <<<<"n","o","r","e","p","l","y">>, <<"d","o","n","o","t","r","e","p","l","y">>, <<"n","o","-","r","e","p","l","y">>>>)
     /\ \E i \in DOMAIN report.urgency_indicators :
            report.urgency_indicators[i] \in {"action_required", "time_pressure"})
        => report.response_suggested = TRUE

\* C9: a promotional message from a noreply sender, with no high- or
\* medium-priority keyword and no "?", gets priority_score below 0.4.
C9_PromotionalIsLowPriority ==
    (/\ IsReport
     /\ report.category = "promotional"
     /\ SenderHas(msg, <<<<"n","o","r","e","p","l","y">>>>)
     /\ ~HasHighKeyword(msg)
     /\ ~HasMediumKeyword(msg)
     /\ ~Contains(<<"?">>, content_of(msg)))
        => less(report.priority_score, Dec(40))

\* the case of C10: a sender without noreply / donotreply, no automated
\* marker, at least one high-priority keyword
HighPriorityCase(m) ==
    /\ ~SenderHas(m, <<<<"n","o","r","e","p","l","y">>, <<"d","o","n","o","t","r","e","p","l","y">>>>)
    /\ ~HasAutoMarker(m)
    /\ HasHighKeyword(m)

\* C10: a message from a sender without noreply / donotreply, with no
\* automated marker and at least one high-priority keyword, gets
\* priority_score above 0.7; generate_productivity_metrics counts every such
\* unread message in unread_priority_messages.
C10_HighKeywordIsHighPriority ==
    /\ (IsReport /\ HighPriorityCase(msg)) => less(Dec(70), report.priority_score)
    /\ Returns("generate_productivity_metrics") =>
         report.unread_priority_messages >=
             Cardinality({i \in DOMAIN messages : ~messages[i].is_read /\ HighPriorityCase(messages[i])})

\* C10 witness: the metrics of a batch that holds two such unread messages
\* and counts them
C10_Witness ==
    /\ Returns("generate_productivity_metrics")
    /\ Cardinality({i \in DOMAIN messages : ~messages[i].is_read /\ HighPriorityCase(messages[i])}) = 2
    /\ report.unread_priority_messages = 2

\* C11: a message whose content has an automated marker and no high- or
\* medium-priority keyword gets priority_score below 0.6, whatever the sender
\* and whether or not the content has a "?".
C11_AutomatedIsBelowSixTenths ==
    (/\ IsReport
     /\ HasAutoMarker(msg)
     /\ ~HasHighKeyword(msg)
     /\ ~HasMediumKeyword(msg))
        => less(report.priority_score, Dec(60))

\* C11 witness: a question in automated mail from a personal sender, which
\* gets every boost: 0.5 + 0.1 + 0.15 - 0.2
C11_Witness ==
    /\ IsReport
    /\ HasAutoMarker(msg)
    /\ ~HasHighKeyword(msg)
    /\ ~HasMediumKeyword(msg)
    /\ ~SenderHas(msg, <<<<"n","o","r","e","p","l","y">>, <<"d","o","n","o","t","r","e","p","l","y">>>>)
    /\ Contains(<<"?">>, content_of(msg))
    /\ report.priority_score = Dec(55)

\* C12: analyze_communication_patterns on an empty batch returns, without
\* error, total_messages_analyzed = 0, no avg_response_time and empty
\* peak_activity_hours, most_frequent_senders, category_distribution and
\* sentiment_trend.
C12_EmptyBatchPatterns ==
    (call.op = "analyze_communication_patterns" /\ messages = <<>>)
        => /\ call.outcome.status = "returned"
           /\ report.total_messages_analyzed = 0
           /\ ~report.avg_response_time.present
           /\ report.peak_activity_hours = <<>>
           /\ report.most_frequent_senders = <<>>
           /\ DOMAIN report.category_distribution = {}
           /\ DOMAIN report.sentiment_trend = {}

\* C12 witness: the pattern analysis of the empty batch has returned
C12_Witness ==
    /\ Returns("analyze_communication_patterns")
    /\ messages = <<>>
    /\ report.total_messages_analyzed = 0

\* C13: generate_productivity_metrics on an empty batch returns, without
\* error, unread_priority_messages = 0, estimated_daily_email_time = 0,
\* response_efficiency_score = 1.0, email_overload_risk = low and exactly one
\* recommendation.
C13_EmptyBatchMetrics ==
    (call.op = "generate_productivity_metrics" /\ messages = <<>>)
        => /\ call.outcome.status = "returned"
           /\ report.unread_priority_messages = 0
           /\ report.estimated_daily_email_time = 0
           /\ report.response_efficiency_score.num = report.response_efficiency_score.den
           /\ report.email_overload_risk = "low"
           /\ Len(report.recommendations) = 1

\* C13 witness: the metrics of the empty batch have returned, with the
\* recommendation that explains it
C13_Witness ==
    /\ Returns("generate_productivity_metrics")
    /\ messages = <<>>
    /\ report.recommendations = <<Plain("No messages to analyze")>>

\* C14: analyze_message on a message with empty subject and empty body, from
\* any sender, returns sentiment neutral with confidence 0.7, category general
\* with confidence 0.5, no urgency indicator, estimated_reading_time 30, no key
\* topic, response_suggested false, priority_score 0.6 (0.5 if the sender
\* contains noreply / donotreply) and spam_probability at most 0.1.
C14_EmptyTextDefaults ==
    (IsReport /\ msg.subject = <<>> /\ msg.body_text = <<>>)
        => /\ report.sentiment = "neutral"
           /\ report.sentiment_confidence = 70
           /\ report.category = "general"
           /\ report.category_confidence = 50
           /\ report.urgency_indicators = <<>>
           /\ report.estimated_reading_time = 30
           /\ report.key_topics = <<>>
           /\ report.response_suggested = FALSE
           /\ report.priority_score =
                 (IF SenderHas(msg, <<<<"n","o","r","e","p","l","y">>, <<"d","o","n","o","t","r","e","p","l","y">>>>) THEN Dec(50) ELSE Dec(60))
           /\ ~less(Dec(10), report.spam_probability)

\* C14 witness: an empty message from a promotional sender, which gets the
\* 0.1 of the sender's reputation
C14_Witness ==
    /\ IsReport
    /\ msg.subject = <<>>
    /\ msg.body_text = <<>>
    /\ SenderHas(msg, <<<<"p","r","o","m","o">>>>)
    /\ report.priority_score = Dec(60)
    /\ report.spam_probability = Dec(10)

\* the timestamps of a batch, and the one that follows t among them
StampsOf(msgs) == {msgs[i].timestamp : i \in DOMAIN msgs}

NextStamp(msgs, t) ==
    CHOOSE u \in StampsOf(msgs) : u > t /\ \A v \in StampsOf(msgs) : v > t => u <= v

\* the timestamps followed, less than 24 hours later, by another one
ShortGapStamps(msgs) ==
    {t \in StampsOf(msgs) :
        /\ \E u \in StampsOf(msgs) : u > t
        /\ NextStamp(msgs, t) - t < SECONDS_PER_DAY}

\* the number and the sum of the gaps under 24 hours between the messages
\* taken in timestamp order (messages with equal timestamps are 0 apart)
ShortGapCount(msgs) ==
    Cardinality(ShortGapStamps(msgs)) + Len(msgs) - Cardinality(StampsOf(msgs))

ShortGapTotal(msgs) ==
    sum_seq(List([i \in DOMAIN msgs |->
        IF /\ msgs[i].timestamp \in ShortGapStamps(msgs)
           /\ \A j \in 1..(i - 1) : msgs[j].timestamp # msgs[i].timestamp
        THEN NextStamp(msgs, msgs[i].timestamp) - msgs[i].timestamp
        ELSE 0]))

\* C15: avg_response_time is the arithmetic mean of the gaps strictly under
\* 24 hours between the messages taken in ascending timestamp order; it is
\* absent for fewer than 2 messages or when no gap is under 24 hours; for two
\* messages one hour apart it is one hour, in whichever order they are passed.
C15_MeanOfShortGaps ==
    Returns("analyze_communication_patterns") =>
        /\ (Len(messages) < 2 \/ ShortGapCount(messages) = 0)
              => ~report.avg_response_time.present
        /\ (Len(messages) >= 2 /\ ShortGapCount(messages) > 0)
              => report.avg_response_time =
                    Mean(ShortGapTotal(messages), ShortGapCount(messages))
        /\ (/\ Len(messages) = 2
            /\ messages[1].timestamp - messages[2].timestamp \in {SECONDS_PER_HOUR, 0 - SECONDS_PER_HOUR})
              => report.avg_response_time = Mean(SECONDS_PER_HOUR, 1)

\* C15 witness: three messages passed newest first, both of whose gaps count
C15_Witness ==
    /\ Returns("analyze_communication_patterns")
    /\ Len(messages) = 3
    /\ messages[1].timestamp > messages[2].timestamp
    /\ messages[2].timestamp > messages[3].timestamp
    /\ report.avg_response_time.present
    /\ report.avg_response_time.n = 2

\* the whitespace-separated tokens of subject plus body
WordCount(m) == split_len(m.subject \o <<" ">> \o m.body_text)

\* C16: estimated_reading_time equals max(30, floor(word_count * 60 / 200)),
\* word_count being the number of whitespace-separated tokens of subject plus
\* body, and never decreases when words are added.
C16_ReadingTimeIsFloor ==
    /\ \A i \in DOMAIN analyzed_messages :
          analyzed_messages[i].estimated_reading_time =
              Max(30, (WordCount(messages[i]) * 60) \div 200)
    /\ \A i, j \in DOMAIN analyzed_messages :
          WordCount(messages[i]) <= WordCount(messages[j])
              => analyzed_messages[i].estimated_reading_time
                    <= analyzed_messages[j].estimated_reading_time

\* the four conditions of the recommendations
UnreadCount(msgs) == Cardinality({i \in DOMAIN msgs : ~msgs[i].is_read})

OldUnreadCount(msgs, now) ==
    Cardinality({i \in DOMAIN msgs :
        ~msgs[i].is_read /\ (now - msgs[i].timestamp) \div SECONDS_PER_DAY > 7})

SomeConditionHolds(msgs, metrics, now) ==
    \/ metrics.unread_priority_messages > 0
    \/ metrics.email_overload_risk = "high"
    \/ UnreadCount(msgs) * 10 > 3 * Len(msgs)
    \/ OldUnreadCount(msgs, now) > 5

LooksGood == Plain("Your email management looks good!")

\* the statement of C17 about the metrics returned for a batch
FallbackIffNoCondition(msgs, metrics, now) ==
    /\ metrics.recommendations # <<>>
    /\ (\E r \in DOMAIN metrics.recommendations : metrics.recommendations[r] = LooksGood)
          <=> ~SomeConditionHolds(msgs, metrics, now)
    /\ ~SomeConditionHolds(msgs, metrics, now) => metrics.recommendations = <<LooksGood>>

\* C17 as stated: generate_productivity_metrics always returns a non-empty
\* recommendations list, and "Your email management looks good!" appears if
\* and only if none of the four conditions holds, and is then the only entry.
C17_FallbackIffNoCondition ==
    Returns("generate_productivity_metrics")
        => FallbackIffNoCondition(messages, report, call.now)

\* C17 amended: the same for a non-empty batch; for the empty batch the only
\* entry is "No messages to analyze".
C17_FallbackIffNoConditionNonEmpty ==
    Returns("generate_productivity_metrics") =>
        IF messages = <<>> THEN report.recommendations = <<Plain("No messages to analyze")>>
        ELSE FallbackIffNoCondition(messages, report, call.now)

\* C17 witness: a batch of which only five old messages are unread, whose
\* only recommendation is the closing line
C17_Witness ==
    /\ Returns("generate_productivity_metrics")
    /\ OldUnreadCount(messages, call.now) = 5
    /\ UnreadCount(messages) = 5
    /\ report.recommendations = <<LooksGood>>

\* no spam signal other than a run of letters
Legitimate(m) ==
    /\ \A k \in DOMAIN SpamIndicators0 :
          SpamIndicators0[k].kind # "run" => ~Search(SpamIndicators0[k], content_of(m), TRUE)
    /\ count(<<"h","t","t","p">>, content_of(m)) <= 5
    /\ ~SenderHas(m, <<<<"n","o","r","e","p","l","y">>, <<"m","a","r","k","e","t","i","n","g">>, <<"p","r","o","m","o">>>>)
    /\ ~ContainsAny(<<<<"f","r","e","e">>, <<"w","i","n">>, <<"m","o","n","e","y">>, <<"d","e","a","l">>>>, lower(m.subject))

\* C18: a legitimate message (no lottery, click-here or pharma wording, no
\* run of 3 or more "!", at most 5 "http", a sender without noreply /
\* marketing / promo, a subject without free / win / money / deal) gets
\* spam_probability below 0.3.
C18_LegitimateIsNotSpam ==
    (IsReport /\ Legitimate(msg)) => less(report.spam_probability, Dec(30))

\* C18 witness: a legitimate message that scores the 0.2 of the run of letters
C18_Witness ==
    /\ IsReport
    /\ Legitimate(msg)
    /\ report.spam_probability = Dec(20)

\* C19: no operation changes a field of an input message, the contents or
\* the order of the batch, or one of the static tables.
C19_InputsAndTablesUnchanged ==
    [][messages' = messages /\ tables' = tables]_vars

\* C19 witness: every operation has run on a batch of two messages, and the
\* tables are as they were defined
C19_Witness ==
    /\ pc = "again"
    /\ Len(messages) = 2
    /\ tables = <<HighPriorityKeywords0, MediumPriorityKeywords0, PositiveWords0,
                  NegativeWords0, CategoryPatterns0, SpamIndicators0>>

\* the subject or the body has a run of n or more capital letters
HasCapitalRun(m, n) ==
    \/ Search([kind |-> "run", min |-> n, bounded |-> FALSE], m.subject, FALSE)
    \/ Search([kind |-> "run", min |-> n, bounded |-> FALSE], m.body_text, FALSE)

\* C20: caps_emphasis is reported only when the subject or the body has a run
\* of 4 or more capital letters, and the 0.2 for excessive capitals is added
\* only when it has a run of 5 or more: an otherwise legitimate message
\* without such a run has spam_probability 0.
C20_CapitalSignalsNeedCapitals ==
    IsReport =>
        /\ (\E i \in DOMAIN report.urgency_indicators :
                report.urgency_indicators[i] = "caps_emphasis") => HasCapitalRun(msg, 4)
        /\ (Legitimate(msg) /\ ~HasCapitalRun(msg, 5)) => report.spam_probability = ZERO


Archive == Plain("Archive or delete old unread messages to reduce clutter")

\* the unread messages received more than 7 x 24 hours before the clock reading
StaleUnread(msgs, now) ==
    {i \in DOMAIN msgs : ~msgs[i].is_read /\ now - msgs[i].timestamp > 7 * SECONDS_PER_DAY}

\* C21: the archive/delete recommendation is in the recommendations if and
\* only if more than 5 unread messages of the batch have a timestamp more than
\* 7 x 24 hours before the call time; read messages and younger unread
\* messages do not count.
C21_ArchiveIffSixStaleUnread ==
    Returns("generate_productivity_metrics") =>
        ((\E r \in DOMAIN report.recommendations : report.recommendations[r] = Archive)
            <=> Cardinality(StaleUnread(messages, call.now)) > 5)

\* the messages older than 1 hour at the clock reading for which the analysis
\* suggests a response, given the report of each message
ActionableOlder(msgs, reports, now) ==
    {i \in DOMAIN msgs : now - msgs[i].timestamp > SECONDS_PER_HOUR /\ reports[i].response_suggested}

\* the actionable messages that are read and younger than 24 hours
EfficientOf(msgs, now, counted) ==
    {i \in counted : msgs[i].is_read /\ now - msgs[i].timestamp < SECONDS_PER_DAY}

\* the fraction is the number num / den
IsFraction(ratio, num, den) == ratio.num * den = num * ratio.den

ScoreIsEfficientOverActionable(msgs, score, now, counted) ==
    /\ 0 <= score.num /\ score.num <= score.den
    /\ counted = {} => IsFraction(score, 1, 1)
    /\ counted # {} =>
          IsFraction(score, Cardinality(EfficientOf(msgs, now, counted)), Cardinality(counted))
    /\ EfficientOf(msgs, now, counted) # counted => score.num < score.den

\* C22: response_efficiency_score considers only the messages older than 1 hour
\* at call time; the actionable ones among them are those with
\* response_suggested, the efficient ones the actionable ones that are read and
\* younger than 24 hours; the score is efficient / actionable, within [0, 1],
\* 1.0 without actionable message, and below 1.0 as soon as an actionable
\* message is unread or not younger than 24 hours.
C22_EfficiencyOfOlderThanOneHour ==
    Returns("generate_productivity_metrics") /\ messages # <<>> =>
        ScoreIsEfficientOverActionable(messages, report.response_efficiency_score, call.now,
            ActionableOlder(messages, analyzed_messages, call.now))

\* the unread messages of the batch, and those whose report has a
\* priority_score above 0.7
Unread(msgs) == {i \in DOMAIN msgs : ~msgs[i].is_read}

UnreadAboveThreshold(msgs, reports) ==
    {i \in Unread(msgs) : less(Dec(70), reports[i].priority_score)}

\* C23: unread_priority_messages is the number of unread messages whose
\* analyze_message priority_score is strictly greater than 0.7: no read
\* message is counted, an unread message that scores exactly 0.7 is not
\* counted, and the count is at most the number of unread messages.
C23_UnreadAboveThresholdCounted ==
    Returns("generate_productivity_metrics") /\ messages # <<>> =>
        /\ report.unread_priority_messages =
              Cardinality(UnreadAboveThreshold(messages, analyzed_messages))
        /\ report.unread_priority_messages <= Cardinality(Unread(messages))

\* C23 witness: of two unread messages, one scores exactly 0.7 and is left
\* out, the other scores the float next above 0.7 and is counted
C23_Witness ==
    /\ Returns("generate_productivity_metrics")
    /\ Len(messages) = 2
    /\ Unread(messages) = {1, 2}
    /\ analyzed_messages[1].priority_score = Dec(70)
    /\ less(Dec(70), analyzed_messages[2].priority_score)
    /\ less(analyzed_messages[2].priority_score, Dec(71))
    /\ report.unread_priority_messages = 1

\* the number of places of the content where \b(alt1|alt2|...)\b matches
WordMatches(alts, content) ==
    Cardinality({i \in DOMAIN content : WordsMatchLen(alts, content, i, TRUE) > 0})

\* the score of category k: the matches of its two patterns
CategoryScore(k, content) ==
    WordMatches(CategoryPatterns0[k].patterns[1].alts, content)
        + WordMatches(CategoryPatterns0[k].patterns[2].alts, content)

\* the four scores, in the order work, personal, promotional, notification
CategoryScores(content) == List([k \in 1..4 |-> CategoryScore(k, content)])

CategoryNames == <<"work", "personal", "promotional", "notification">>

\* the category and the confidence that C24 states for the four scores
CategoryFollows(r, score) ==
    /\ (r.category = "general" /\ r.category_confidence = 50) <=> \A k \in 1..4 : score[k] = 0
    /\ (\E k \in 1..4 : score[k] > 0) =>
          \E k \in 1..4 :
              /\ r.category = CategoryNames[k]
              /\ \A h \in 1..4 : score[h] <= score[k]
              /\ \A h \in 1..(k - 1) : score[h] < score[k]
              /\ r.category_confidence = Min(100, (score[k] * 100) \div 5)

\* C24: with one score per category, the number of matches of its two
\* word-boundary patterns, the result is (general, 0.5) if and only if the
\* four scores are 0; otherwise the category is the first of work, personal,
\* promotional, notification that attains the maximum score, and
\* category_confidence is min(1.0, max_score / 5).
C24_FirstCategoryOfMaximumScore ==
    IsReport => CategoryFollows(report, CategoryScores(content_of(msg)))

\* C24 witness: personal and notification words, one of each and no other:
\* the category is personal, with confidence 0.2
C24_Witness ==
    /\ IsReport
    /\ CategoryScores(content_of(msg)) = <<0, 1, 0, 1>>
    /\ report.category = "personal"
    /\ report.category_confidence = 20

\* the numbers of positive and of negative words found in the content
PositiveFound(content) == Cardinality({w \in PositiveWords0 : Contains(w, content)})

NegativeFound(content) == Cardinality({w \in NegativeWords0 : Contains(w, content)})

\* the sentiment and the confidence that C25 states for P positive and N
\* negative words: P / (P + N) > 0.6 is 10 * P > 6 * (P + N)
SentimentFollows(r, P, N) ==
    /\ P + N = 0 => r.sentiment = "neutral" /\ r.sentiment_confidence = 70
    /\ P + N > 0 =>
          /\ r.sentiment_confidence = Min(100, (P + N) * 10)
          /\ r.sentiment = "positive" <=> 10 * P > 6 * (P + N)
          /\ r.sentiment = "negative" <=> 10 * P < 4 * (P + N)
          /\ r.sentiment = "neutral" <=> (10 * P <= 6 * (P + N) /\ 10 * P >= 4 * (P + N))

\* C25: with P positive and N negative words found in the content, the
\* result is (neutral, 0.7) when P + N = 0; otherwise the confidence is
\* min(1.0, (P + N) / 10) and the sentiment is positive iff P / (P + N) > 0.6,
\* negative iff P / (P + N) < 0.4, neutral otherwise: the comparisons are
\* strict, so that P = 3, N = 2 and P = 2, N = 3 are both neutral.
C25_SentimentByStrictRatio ==
    IsReport =>
        SentimentFollows(report, PositiveFound(content_of(msg)), NegativeFound(content_of(msg)))

\* C25 witness: three positive words and two negative ones: the ratio is the
\* threshold 0.6 itself, the sentiment neutral with confidence 0.5
C25_Witness ==
    /\ IsReport
    /\ PositiveFound(content_of(msg)) = 3
    /\ NegativeFound(content_of(msg)) = 2
    /\ report.sentiment = "neutral"
    /\ report.sentiment_confidence = 50

\* the divisor of messages_per_day: the whole days from the first message
\* passed to the last one, never less than 1
DayDivisor(msgs) ==
    IF msgs[Len(msgs)].timestamp - msgs[1].timestamp >= 2 * SECONDS_PER_DAY
    THEN (msgs[Len(msgs)].timestamp - msgs[1].timestamp) \div SECONDS_PER_DAY
    ELSE 1

\* the risk that C26 states for n messages over d days
RiskFollows(risk, n, d) ==
    /\ risk = "high" <=> n > 50 * d
    /\ risk = "medium" <=> (20 * d < n /\ n <= 50 * d)
    /\ risk = "low" <=> n <= 20 * d
    /\ n <= 20 => risk = "low"
    /\ n <= 50 => risk # "high"

\* C26: email_overload_risk is high iff messages_per_day > 50, medium iff
\* 20 < messages_per_day <= 50, low otherwise (exactly 50 per day is medium,
\* exactly 20 is low); the divisor being at least 1 day, a batch of at most
\* 20 messages is low and a batch of at most 50 messages is not high.
C26_StrictRiskThresholds ==
    Returns("generate_productivity_metrics") /\ messages # <<>> =>
        RiskFollows(report.email_overload_risk, Len(messages), DayDivisor(messages))

\* C26 witness: exactly 50 messages in one day, which is medium
C26_Witness ==
    /\ Returns("generate_productivity_metrics")
    /\ Len(messages) = 50
    /\ DayDivisor(messages) = 1
    /\ report.email_overload_risk = "medium"

AllCategories == <<"work", "personal", "promotional", "notification", "general">>

\* the messages whose report has category c, given the report of each message
InCategory(reports, c) == {i \in DOMAIN reports : reports[i].category = c}

\* the sum of the numeric sentiments (in hundredths) of a set of reports
NumericTotal(reports, among) ==
    100 * Cardinality({i \in among : reports[i].sentiment = "positive"})
        + 50 * Cardinality({i \in among : reports[i].sentiment = "neutral"})

\* the sum of the counts of a distribution
CountTotal(distribution) ==
    sum_seq(List([k \in DOMAIN AllCategories |->
        IF AllCategories[k] \in DOMAIN distribution THEN distribution[AllCategories[k]] ELSE 0]))

\* what C27 states of the patterns of a batch, given the report of each message
DistributionFollows(patterns, reports) ==
    /\ DOMAIN patterns.category_distribution = {reports[i].category : i \in DOMAIN reports}
    /\ \A c \in DOMAIN patterns.category_distribution :
          /\ patterns.category_distribution[c] = Cardinality(InCategory(reports, c))
          /\ patterns.category_distribution[c] > 0
    /\ CountTotal(patterns.category_distribution) = patterns.total_messages_analyzed
    /\ patterns.total_messages_analyzed = Len(reports)
    /\ DOMAIN patterns.sentiment_trend = DOMAIN patterns.category_distribution
    /\ \A c \in DOMAIN patterns.sentiment_trend :
          /\ patterns.sentiment_trend[c].n > 0
          /\ patterns.sentiment_trend[c].total * Cardinality(InCategory(reports, c))
                = NumericTotal(reports, InCategory(reports, c)) * patterns.sentiment_trend[c].n
          /\ 0 <= patterns.sentiment_trend[c].total
          /\ patterns.sentiment_trend[c].total <= 100 * patterns.sentiment_trend[c].n

\* C27: for a non-empty batch, category_distribution[c] is the number of
\* messages whose analyze_message category is c, the counts add up to
\* total_messages_analyzed, which is the batch size, no category without
\* message appears, and sentiment_trend has the same keys, each value the mean
\* of the numeric sentiments (positive 1.0, neutral 0.5, negative 0.0) of the
\* messages of the category, within [0.0, 1.0].
C27_DistributionAndTrendByCategory ==
    (Returns("analyze_communication_patterns") /\ messages # <<>>)
        => DistributionFollows(report, analyzed_messages)

\* C27 witness: two messages of the category general, one neutral and one
\* negative: the count is 2 and the mean 0.25
C27_Witness ==
    /\ Returns("analyze_communication_patterns")
    /\ Len(messages) = 2
    /\ DOMAIN report.category_distribution = {"general"}
    /\ report.category_distribution["general"] = 2
    /\ report.sentiment_trend["general"] = [total |-> 50, n |-> 2]
    /\ analyzed_messages[1].sentiment # analyzed_messages[2].sentiment

StopWords ==
    {<<"t","h","i","s">>, <<"t","h","a","t">>, <<"w","i","t","h">>, <<"f","r","o","m">>, <<"t","h","e","y">>, <<"h","a","v","e">>, <<"w","i","l","l">>, <<"y","o","u","r">>, <<"w","o","u","l","d">>, <<"c","o","u","l","d">>}

\* how often the token w occurs among the tokens, and where it occurs first
Frequency(tokens, w) == Cardinality({i \in DOMAIN tokens : tokens[i] = w})

FirstAt(tokens, w) == CHOOSE i \in DOMAIN tokens : tokens[i] = w /\ \A j \in 1..(i - 1) : tokens[j] # w

\* what C28 states of the topics, given the alphabetic tokens of length 4 and
\* more of the content, in lower case, in the order of the content
TopicsFollow(topics, tokens) ==
    /\ Len(topics) <= 5
    /\ \A r, s \in DOMAIN topics : r # s => topics[r] # topics[s]
    /\ \A r \in DOMAIN topics :
          /\ Len(topics[r]) >= 4
          /\ \A j \in DOMAIN topics[r] : topics[r][j] \in LowerSet
          /\ topics[r] \notin StopWords
          /\ \E i \in DOMAIN tokens : tokens[i] = topics[r]
    /\ \A r, s \in DOMAIN topics :
          r < s => \/ Frequency(tokens, topics[r]) > Frequency(tokens, topics[s])
                   \/ /\ Frequency(tokens, topics[r]) = Frequency(tokens, topics[s])
                      /\ FirstAt(tokens, topics[r]) < FirstAt(tokens, topics[s])
    /\ \A i \in DOMAIN tokens :
          (tokens[i] \notin StopWords /\ \A r \in DOMAIN topics : topics[r] # tokens[i])
              => \A r \in DOMAIN topics : Frequency(tokens, tokens[i]) <= Frequency(tokens, topics[r])

\* the tokens of a message: its words of 4 letters and more, in lower case
Lowered(words) == List([i \in DOMAIN words |-> lower(words[i])])

TokensOf(m) == Lowered(topic_words(content_of(m)))

\* C28: key_topics holds at most 5 distinct lowercase alphabetic tokens of
\* length at least 4, none of them a stop word, by non-increasing frequency in
\* the content, equal frequencies in first-encountered order; a token left out
\* is no more frequent than any token included.
C28_TopFiveTopics ==
    IsReport => TopicsFollow(report.key_topics, TokensOf(msg))

\* C28 witness: seven distinct tokens besides the stop words, of which the
\* five topics are the most frequent, a stop word being as frequent as the
\* second topic
C28_Witness ==
    /\ IsReport
    /\ report.key_topics = <<<<"g","a","m","m","a">>, <<"b","e","t","a">>, <<"z","e","t","a">>, <<"r","e","p","o","r","t">>, <<"a","l","p","h","a">>>>
    /\ Frequency(TokensOf(msg), <<"t","h","i","s">>) = 2
    /\ Frequency(TokensOf(msg), <<"d","e","l","t","a">>) = 1

\* the items of top are at most n distinct items of the list, by non-increasing
\* frequency, equal frequencies in first-seen order, and no item left out is
\* more frequent than an item of top
RankedByFrequency(top, items, n) ==
    /\ Len(top) <= n
    /\ \A r, s \in DOMAIN top : r # s => top[r] # top[s]
    /\ \A r \in DOMAIN top : \E i \in DOMAIN items : items[i] = top[r]
    /\ \A r, s \in DOMAIN top :
          r < s => \/ Frequency(items, top[r]) > Frequency(items, top[s])
                   \/ /\ Frequency(items, top[r]) = Frequency(items, top[s])
                      /\ FirstAt(items, top[r]) < FirstAt(items, top[s])
    /\ \A i \in DOMAIN items :
          (\A r \in DOMAIN top : top[r] # items[i])
              => \A r \in DOMAIN top : Frequency(items, items[i]) <= Frequency(items, top[r])

\* the hour of the day of each message, and the sender of each message
HoursOf(msgs) == List([i \in DOMAIN msgs |-> (msgs[i].timestamp % SECONDS_PER_DAY) \div SECONDS_PER_HOUR])

SendersOf(msgs) == List([i \in DOMAIN msgs |-> msgs[i].sender])

\* what C29 states of the patterns of a batch with the given hours and senders
PeaksFollow(patterns, hours, senders) ==
    /\ RankedByFrequency(patterns.peak_activity_hours, hours, 3)
    /\ \A r \in DOMAIN patterns.peak_activity_hours : patterns.peak_activity_hours[r] \in 0..23
    /\ RankedByFrequency(List([r \in DOMAIN patterns.most_frequent_senders |->
                                patterns.most_frequent_senders[r].item]), senders, 5)
    /\ \A r \in DOMAIN patterns.most_frequent_senders :
          patterns.most_frequent_senders[r].count =
              Frequency(senders, patterns.most_frequent_senders[r].item)

\* C29: peak_activity_hours lists at most 3 distinct hours (0-23) and
\* most_frequent_senders at most 5 distinct (sender, count) pairs, each by
\* non-increasing count, equal counts in first-seen order; a count is the
\* number of messages of the batch with that exact sender string, and an hour
\* or a sender left out occurs no more often than any one included.
C29_PeakHoursAndTopSenders ==
    (/\ Returns("analyze_communication_patterns")
     /\ \A i \in DOMAIN messages : has_timestamp(messages[i]))
        => PeaksFollow(report, HoursOf(messages), SendersOf(messages))

\* C29 witness: nine messages from seven senders at five hours of the day: the
\* three hours and the five senders listed are the most frequent ones, the
\* first seen going first among equals
C29_Witness ==
    /\ Returns("analyze_communication_patterns")
    /\ Len(messages) = 9
    /\ messages[1].sender = <<"a","n","n","@","h","o","m","e",".","n","e","t">>
    /\ report.peak_activity_hours = <<12, 10, 11>>
    /\ Len(report.most_frequent_senders) = 5
    /\ report.most_frequent_senders[1] = [item |-> <<"c","a","t","@","h","o","m","e",".","n","e","t">>, count |-> 2]
    /\ report.most_frequent_senders[2] = [item |-> <<"f","a","y","@","h","o","m","e",".","n","e","t">>, count |-> 2]
    /\ report.most_frequent_senders[3] = [item |-> <<"a","n","n","@","h","o","m","e",".","n","e","t">>, count |-> 1]

\* C30: priority_score is never below 0.3: the base is 0.5, the keyword,
\* sender and question adjustments are not negative and the only deduction is
\* the 0.2 for an automated marker, so the lower clamp at 0.0 never takes
\* effect and no message has priority_score < 0.2.
C30_PriorityAtLeastThreeTenths ==
    /\ \A i \in DOMAIN analyzed_messages :
          /\ ~less(analyzed_messages[i].priority_score, Dec(30))
          /\ ~less(analyzed_messages[i].priority_score, Dec(20))
    /\ IsReport =>
          /\ ~less(report.priority_score, Dec(30))
          /\ ~less(report.priority_score, Dec(20))

\* C30 witness: automated mail from a noreply sender, without keyword or
\* question, which scores 0.5 - 0.2
C30_Witness ==
    /\ IsReport
    /\ HasAutoMarker(msg)
    /\ SenderHas(msg, <<<<"n","o","r","e","p","l","y">>>>)
    /\ ~HasHighKeyword(msg)
    /\ ~HasMediumKeyword(msg)
    /\ report.priority_score = Dec(30)
====
